---- MODULE Spec2Model ----
(***************************************************************************)
(* Question administration front end: the three question forms             *)
(* (QuestionForm, QuestionEditModal, the inline form of the Questions      *)
(* page), their hosts, the classification cascade subject -> unit ->       *)
(* chapter, the save path, and the question list that is refetched after   *)
(* a save; the feedback view with its filters and status changes; the     *)
(* session (login, request interceptor, route guard, logout); and the      *)
(* search, filter, pagination and deletion of the question list.  The      *)
(* remote API is the environment: every request is answered later, in any  *)
(* order, with success or failure.                                         *)
(***************************************************************************)
EXTENDS Integers, Sequences, FiniteSets, Bags, TLC

(***************************************************************************)
(* Bounds of the model (not program constants).                            *)
(***************************************************************************)
MaxSaveReqs == 1
MaxUnitReqs == 1
MaxLoadReqs == 1
MaxListReqs == 1
MaxSubjectReqs == 1
MaxUpdates == 1
MaxFbReqs == 1
MaxStatusReqs == 2

(***************************************************************************)
(* The three form variants of the repository, named after their component. *)
(***************************************************************************)
Variants == {"QuestionForm", "QuestionEditModal", "Questions"}

QuestionIds == {"Q1", "Q2"}
SubjectIds == {"S1", "S2"}
Difficulties == {"easy", "medium", "hard"}
TextValues == {"", "t"}

\* How the detail endpoint serialises a reference: a plain string, or a
\* populated object carrying the id in its _id or in its id member.
Reps == {"str", "_id", "id"}
\* The subject reference of a response has its own serialisation; the
\* unit and its chapter share theirs.
RefFields == {"subjectId", "unitId", "chapterId"}
RepChoices == {c \in [RefFields -> Reps] : c.chapterId = c.unitId}

(***************************************************************************)
(* types.ts / the local copies in each page                                *)
(***************************************************************************)
initialFormState ==
  [questionText |-> [en |-> "", hi |-> ""],
   subjectId |-> "",
   unitId |-> "",
   chapterId |-> "",
   difficulty |-> "medium"]

(***************************************************************************)
(* Remote API (environment).                                               *)
(***************************************************************************)
\* GET /questions/subjects/list
ServerSubjects == << [subjectId |-> "S1"], [subjectId |-> "S2"] >>

\* POST /questions/subjects/units: the units of a subject, each embedding
\* its chapters.
ServerUnits(s) ==
  IF s = "S1" THEN << [unitId |-> "U1", chapters |-> << [id |-> "C1"] >>] >>
  ELSE IF s = "S2" THEN << [unitId |-> "U2", chapters |-> << [id |-> "C2"] >>] >>
  ELSE << >>

StoredQuestion(refs, en, hi, d) ==
  [questionText |-> [en |-> en, hi |-> hi],
   subjectId |-> refs[1], unitId |-> refs[2], chapterId |-> refs[3],
   difficulty |-> d]

\* The stored questions: Q1 refers to a chapter that is gone from its unit,
\* Q2 to a unit that is gone from its subject, and to no chapter.
InitialDb ==
  [q \in QuestionIds |->
     IF q = "Q1" THEN StoredQuestion(<<"S1", "U1", "CX">>, "", "t", "easy")
     ELSE StoredQuestion(<<"S2", "UX", "">>, "t", "", "medium")]

\* A reference as the detail endpoint puts it on the wire.
Wire(x, r) ==
  IF x = "" THEN [k |-> "nil"]
  ELSE IF r = "str" THEN [k |-> "str", s |-> x]
  ELSE [k |-> "obj",
        f_id |-> IF r = "_id" THEN x ELSE "",
        unitId |-> "", subjectId |-> "",
        id |-> IF r = "id" THEN x ELSE ""]

\* GET /questions/:id
DetailResponse(row, r) ==
  [questionText |-> row.questionText,
   subjectId |-> Wire(row.subjectId, r.subjectId),
   unitId |-> Wire(row.unitId, r.unitId),
   chapterId |-> Wire(row.chapterId, r.chapterId),
   difficulty |-> row.difficulty]

\* One row of GET /questions/questions (references are plain strings).
ListRow(qid, row) ==
  [id |-> qid,
   questionText |-> row.questionText,
   subjectId |-> row.subjectId, unitId |-> row.unitId,
   chapterId |-> row.chapterId,
   difficulty |-> row.difficulty]

ListRows(d) == << ListRow("Q1", d["Q1"]), ListRow("Q2", d["Q2"]) >>

\* A third question, which the forms never open: the last of the listing.
ThirdQuestion == StoredQuestion(<<"S1", "U1", "C1">>, "u", "", "hard")
ListIds == QuestionIds \cup {"Q3"}

\* The parameters of GET /questions/questions: difficulty is left out when
\* the filter is 'all'.
LIMIT == 10
ListParams_SendsAll(p, s, d) ==
  [page |-> p, limit |-> LIMIT, search |-> s, difficulty |-> d]

ListParams(p, s, d) ==
  IF d # "all"
  THEN [page |-> p, limit |-> LIMIT, search |-> s, difficulty |-> d]
  ELSE [page |-> p, limit |-> LIMIT, search |-> s]

\* The listing of the remote API: the questions it holds that match the
\* search text and the difficulty, cut into pages.  A page of the model
\* has PageLen rows.
PageLen == 2
ListMatches(row, params) ==
  /\ \/ params.search = ""
     \/ row.questionText.en = params.search
     \/ row.questionText.hi = params.search
  /\ "difficulty" \in DOMAIN params => row.difficulty = params.difficulty

ListResponse(d, held, params) ==
  LET all == ListRows(d) \o << ListRow("Q3", ThirdQuestion) >>
      m == SelectSeq(all, LAMBDA row : row.id \in held /\ ListMatches(row, params))
      first == (params.page - 1) * PageLen + 1
      last == IF first + PageLen - 1 < Len(m) THEN first + PageLen - 1 ELSE Len(m)
  IN [questions |-> SubSeq(m, first, last),
      totalPages |-> (Len(m) + PageLen - 1) \div PageLen]

\* PATCH /questions/:id: the members present in the payload replace the
\* stored ones.
ServerPatch(row, payload) ==
  [f \in DOMAIN row |-> IF f \in DOMAIN payload THEN payload[f] ELSE row[f]]

(***************************************************************************)
(* Pure helpers of the forms.                                              *)
(***************************************************************************)
\* A getid that does not look at the id member of a populated object.
getid_NoIdMember(val) ==
  IF val.k = "nil" THEN ""
  ELSE IF val.k = "obj"
       THEN IF val.f_id # "" THEN val.f_id
            ELSE IF val.unitId # "" THEN val.unitId
            ELSE val.subjectId
       ELSE val.s

\* getid: extract the id of a reference that may be a populated object.
getid(val) ==
  IF val.k = "nil" THEN ""
  ELSE IF val.k = "obj"
       THEN IF val.f_id # "" THEN val.f_id
            ELSE IF val.unitId # "" THEN val.unitId
            ELSE IF val.subjectId # "" THEN val.subjectId
            ELSE val.id
       ELSE val.s

\* populateForm / the setFormData of QuestionEditModal's loadQuestion.
populateForm(q) ==
  [questionText |-> q.questionText,
   subjectId |-> getid(q.subjectId),
   unitId |-> getid(q.unitId),
   chapterId |-> getid(q.chapterId),
   difficulty |-> IF q.difficulty = "" THEN "medium" ELSE q.difficulty]

\* The setFormData of Questions.handleEdit: the row's members are taken
\* as they are.
populateFromRow(q) ==
  [questionText |-> q.questionText,
   subjectId |-> q.subjectId,
   unitId |-> q.unitId,
   chapterId |-> q.chapterId,
   difficulty |-> IF q.difficulty = "" THEN "medium" ELSE q.difficulty]

\* A payload that is the form data as it is.
CleanPayload_KeepsEmpty(fd) == fd

\* "Clean payload: remove empty strings for IDs".
CleanPayload(fd) ==
  [f \in (DOMAIN fd) \ {g \in {"unitId", "chapterId"} : fd[g] = ""} |-> fd[f]]

\* A validation that forgets the subject.
Valid_TextOnly(fd) == ~(fd.questionText.en = "" /\ fd.questionText.hi = "")

\* The two client-side validations of handleSave.
Valid(fd) ==
  /\ ~(fd.questionText.en = "" /\ fd.questionText.hi = "")
  /\ fd.subjectId # ""

\* QuestionForm: questionId || (initialData ? initialData._id : null)
IdToUpdate(questionId, initialDataId) ==
  IF questionId # "" THEN questionId ELSE initialDataId

\* getAvailableChapters
getAvailableChapters(us, unitId) ==
  LET hit == {i \in 1..Len(us) : us[i].unitId = unitId}
  IN IF hit = {} THEN << >>
     ELSE us[CHOOSE i \in hit : \A j \in hit : i <= j].chapters

SeqIds(s, f) == {s[i][f] : i \in 1..Len(s)}


(***************************************************************************)
(* State.                                                                  *)
(***************************************************************************)
VARIABLES
  variant,      \* which form variant (and its host page) is running
  db,           \* the questions stored by the remote API
  lastOk,       \* history: the update the remote API applied last
  updates,      \* history: how many updates the remote API applied
  view,         \* "list", "modal" (showModal), "page" (edit route), "away"
  editingId,    \* editingId / questionId prop / route id; "" is null
  formData,
  subjects,
  units,
  loading,      \* loading (QuestionEditModal), loadingData (QuestionForm)
  formLoading,  \* the saving flag
  subjectReqs,  \* subjects requests in flight
  unitReqs,     \* units requests in flight, a bag of subject ids
  loadReqs,     \* detail requests in flight
  saveReqs,     \* create / update requests in flight
  questions,    \* rows displayed by the list
  listLoading,
  listReqs,     \* list requests in flight
  debounce,     \* the 500ms timer of the list is armed
  loaded,       \* history: the question the form was populated from and
                \* the references the store held for it
  touched,      \* history: a classification selector was used since
  lastOp        \* history: the operation that produced this state, the
                \* save request it issued, whether it invoked the
                \* completion callback

formVars == <<formData, subjects, units, loading, formLoading>>
reqVars == <<subjectReqs, unitReqs, loadReqs, saveReqs>>
listVars == <<questions, listLoading, listReqs, debounce>>
histVars == <<loaded, touched>>
serverVars == <<db, lastOk, updates>>

\* The rest of the application: the feedback view, the session, and the
\* pagination, filters and deletions of the question list.
VARIABLES
  fbVariant,    \* which FeedbackList is running: "App" (src/App.tsx) or
                \* "part_002" (the one without filters and sort)
  fbStore,      \* the status of each feedback item at the remote API
  feedbacks,    \* the fetched feedback items, in the order they came
  fbLoading,
  filters,      \* the filter state of FeedbackList
  fbReqs,       \* feedback list requests in flight
  statusReqs,   \* status-change requests in flight
  token,        \* localStorage admin_token; "" is absent
  adminUser,    \* localStorage admin_user; "" is absent
  location,     \* the route the browser is at
  shown,        \* what the router renders at that route
  loginError,   \* the error message of the Login page
  loginReqs,    \* login requests in flight
  outbox,       \* history: the request the interceptor passed on last
  page,
  search,
  difficultyFilter,
  totalPages,
  elapsed,      \* milliseconds since the debounce timer was armed
  deleteReqs,   \* delete requests in flight
  stored,       \* the questions the remote API holds
  options,      \* formData.options[0].text.en of the form
  initialOptions, \* initialFormState.options[0].text.en, the module-level
                \* object that every blank form starts from
  mounted,      \* App is mounted (the page is open)
  interval,     \* the keep-alive interval timer is set
  sinceProbe,   \* minutes since the interval timer was set or fired last
  probeReqs,    \* keep-alive requests in flight
  probes,       \* history: keep-alive requests sent since App mounted
  usersLoading, \* loading of the Users page
  usersDebounce, \* the 500ms timer of the Users page is pending
  usersReqs,    \* user list requests in flight
  isViewModalOpen,
  viewUser,
  viewUserStats,
  loadingStats,
  viewReqs,     \* user detail requests in flight
  opened,       \* history: the user whose detail view was opened last
  isModalOpen,
  isEditing,
  currentUser,
  userForm,     \* formData of the user form
  submitReqs,   \* create / update requests of the user form in flight
  submitted     \* history: the request handleSubmit sent last

feedbackVars == <<fbVariant, fbStore, feedbacks, fbLoading, filters, fbReqs,
                  statusReqs>>
sessionVars == <<token, adminUser, location, shown, loginError, loginReqs,
                 outbox>>
pagingVars == <<page, search, difficultyFilter, totalPages, elapsed,
                deleteReqs, stored>>
optionVars == <<options, initialOptions>>
probeVars == <<mounted, interval, sinceProbe, probeReqs, probes>>
usersVars == <<usersLoading, usersDebounce, usersReqs, isViewModalOpen, viewUser,
               viewUserStats, loadingStats, viewReqs, opened, isModalOpen,
               isEditing, currentUser, userForm, submitReqs, submitted>>
restVars == <<feedbackVars, sessionVars, pagingVars, probeVars, usersVars>>
appVars == <<restVars, optionVars>>

vars == <<variant, serverVars, view, editingId, formVars, reqVars, listVars,
          histVars, lastOp, appVars>>

\* The text of option A: what the stored questions hold, and what is typed.
ServerOptionText == "o"
OptionTexts == {"", "x"}

NoRow == StoredQuestion(<<"", "", "">>, "", "", "")
NoSave == [kind |-> "none", id |-> "", payload |-> CleanPayload(initialFormState)]
\* toast: the notification the step raises ("none", "error").
Op(name) ==
  [op |-> name, req |-> NoSave, called |-> FALSE, after |-> 0, toast |-> "none"]
NoLoad == [set |-> FALSE, id |-> "", unitId |-> "", chapterId |-> ""]

One(x) == SetToBag({x})

(***************************************************************************)
(* The feedback view (FeedbackList).                                       *)
(***************************************************************************)
FeedbackVariants == {"App", "part_002"}
FeedbackIds == {"F1", "F2", "F3"}
Statuses == {"pending", "reviewed", "resolved", "ignored"}

\* Texts are sequences of characters; "A" is the upper case of "a".
Chars == {"A", "a", "b", "B"}
LowerChar(c) == IF c = "A" THEN "a" ELSE IF c = "B" THEN "b" ELSE c

\* String.prototype.toLowerCase
toLowerCase(t) == [i \in 1..Len(t) |-> LowerChar(t[i])]

\* String.prototype.includes
includes(t, sub) ==
  \E k \in 0..(Len(t) - Len(sub)) : \A i \in 1..Len(sub) : t[k + i] = sub[i]

\* GET /feedback: what the remote API holds for each item besides its
\* status.  F1 has a populated user with a name, F2 a populated user with a
\* gmail only, F3 a plain user id and no populated question.
FeedbackItem(id, status) ==
  IF id = "F1"
  THEN [id |-> id, status |-> status, createdAt |-> 2, feedback |-> <<"a">>,
        userId |-> [k |-> "obj", name |-> <<"A", "b">>, gmail |-> << >>],
        qEn |-> <<"a">>, qHi |-> << >>]
  ELSE IF id = "F2"
  THEN [id |-> id, status |-> status, createdAt |-> 3, feedback |-> <<"b", "a">>,
        userId |-> [k |-> "obj", name |-> << >>, gmail |-> <<"a">>],
        qEn |-> << >>, qHi |-> <<"B">>]
  ELSE [id |-> id, status |-> status, createdAt |-> 1, feedback |-> <<"B">>,
        userId |-> [k |-> "str", s |-> <<"b">>],
        qEn |-> << >>, qHi |-> << >>]

InitialStatus == [i \in FeedbackIds |-> IF i = "F3" THEN "reviewed" ELSE "pending"]

\* The orders in which the remote API may list the items.
Orders == {o \in [1..Cardinality(FeedbackIds) -> FeedbackIds] :
             \A i, j \in DOMAIN o : o[i] = o[j] => i = j}

FeedbackRows(store, o) == [i \in DOMAIN o |-> FeedbackItem(o[i], store[o[i]])]

\* The filter state of FeedbackList, and the values the inputs are given.
initialFilters ==
  [userName |-> << >>, questionText |-> << >>, feedbackText |-> << >>,
   status |-> "pending"]
StatusOptions == {"all"} \cup Statuses
FilterTexts ==
  [userName |-> {<< >>, <<"B">>},
   questionText |-> {<< >>, <<"b">>},
   feedbackText |-> {<< >>, <<"A">>}]

\* fb.userId?.name || fb.userId?.gmail || (typeof fb.userId === 'string' ? fb.userId : '')
userNameOf(fb) ==
  IF fb.userId.k = "obj"
  THEN IF fb.userId.name # << >> THEN fb.userId.name ELSE fb.userId.gmail
  ELSE IF fb.userId.k = "str" THEN fb.userId.s ELSE << >>

\* A filter callback that keeps an item as soon as one filter accepts it.
keeps_AnyFilter(fb, f) ==
  \/ f.status = "all" \/ fb.status = f.status
  \/ (f.userName # << >>
      /\ includes(toLowerCase(userNameOf(fb)), toLowerCase(f.userName)))

\* The callback of feedbacks.filter: false as soon as one filter rejects.
keeps(fb, f) ==
  IF f.status # "" /\ f.status # "all" /\ fb.status # f.status THEN FALSE
  ELSE IF f.userName # << >>
          /\ ~includes(toLowerCase(userNameOf(fb)), toLowerCase(f.userName))
  THEN FALSE
  ELSE IF f.questionText # << >>
          /\ ~includes(toLowerCase(fb.qEn), toLowerCase(f.questionText))
          /\ ~includes(toLowerCase(fb.qHi), toLowerCase(f.questionText))
  THEN FALSE
  ELSE IF f.feedbackText # << >>
          /\ ~includes(toLowerCase(fb.feedback), toLowerCase(f.feedbackText))
  THEN FALSE
  ELSE TRUE

\* Array.prototype.filter
filter(rows, f) == SelectSeq(rows, LAMBDA fb : keeps(fb, f))

\* Array.prototype.sort with (a, b) => time(b) - time(a): a stable sort, the
\* later item first.
RECURSIVE sortLatestFirst(_)
sortLatestFirst(rows) ==
  IF rows = << >> THEN << >>
  ELSE LET rest == sortLatestFirst(Tail(rows))
           x == Head(rows)
           ahead == {k \in 1..Len(rest) : rest[k].createdAt > x.createdAt}
           n == Cardinality(ahead)
       IN SubSeq(rest, 1, n) \o <<x>> \o SubSeq(rest, n + 1, Len(rest))

\* The rows of the table.
filteredFeedbacks ==
  IF fbVariant = "App" THEN sortLatestFirst(filter(feedbacks, filters))
  ELSE feedbacks

\* FeedbackList is not on the screen.
FeedbackInit ==
  /\ fbVariant = "App"
  /\ fbStore = InitialStatus
  /\ feedbacks = << >>
  /\ fbLoading = TRUE
  /\ filters = initialFilters
  /\ fbReqs = EmptyBag
  /\ statusReqs = EmptyBag

\* FeedbackList has mounted: state of useState, and the effect has called
\* fetchFeedback.
FeedbackMounted ==
  /\ fbVariant \in FeedbackVariants
  /\ fbStore = InitialStatus
  /\ feedbacks = << >>
  /\ fbLoading = TRUE
  /\ filters = initialFilters
  /\ fbReqs = One([done |-> FALSE, rows |-> << >>])
  /\ statusReqs = EmptyBag

formOnly == <<variant, serverVars, view, editingId, formVars, reqVars, listVars,
              histVars, optionVars, usersVars>>
formSide == <<formOnly, probeVars>>

\* fetchFeedback up to its await: the Refresh button.
fetchFeedback ==
  /\ location = "/feedback" /\ shown = "/feedback"
  /\ BagCardinality(fbReqs) < MaxFbReqs
  /\ fbLoading' = TRUE
  /\ fbReqs' = fbReqs (+) One([done |-> FALSE, rows |-> << >>])
  /\ lastOp' = Op("fetchFeedback")
  /\ UNCHANGED <<formSide, fbVariant, fbStore, feedbacks, filters, statusReqs,
                 sessionVars, pagingVars>>

\* The remote API reads the items, in an order of its choice.
ServerFeedback(r, o) ==
  /\ r \in BagToSet(fbReqs)
  /\ ~r.done
  /\ fbReqs' = (fbReqs (-) One(r))
               (+) One([done |-> TRUE, rows |-> FeedbackRows(fbStore, o)])
  /\ lastOp' = Op("other")
  /\ UNCHANGED <<formSide, fbVariant, fbStore, feedbacks, fbLoading, filters,
                 statusReqs, sessionVars, pagingVars>>

FeedbackOk(r) ==
  /\ r \in BagToSet(fbReqs)
  /\ r.done
  /\ fbReqs' = fbReqs (-) One(r)
  /\ feedbacks' = r.rows
  /\ fbLoading' = FALSE
  /\ lastOp' = Op("FeedbackOk")
  /\ UNCHANGED <<formSide, fbVariant, fbStore, filters, statusReqs,
                 sessionVars, pagingVars>>

FeedbackFail(r) ==
  /\ r \in BagToSet(fbReqs)
  /\ fbReqs' = fbReqs (-) One(r)
  /\ fbLoading' = FALSE
  /\ lastOp' = Op("FeedbackFail")
  /\ UNCHANGED <<formSide, fbVariant, fbStore, feedbacks, filters, statusReqs,
                 sessionVars, pagingVars>>

\* onChange of the status select and of the three text inputs.
setFilters(field, v) ==
  /\ fbVariant = "App"
  /\ shown = "/feedback"
  /\ v # filters[field]
  /\ filters' = [filters EXCEPT ![field] = v]
  /\ lastOp' = Op("setFilters")
  /\ UNCHANGED <<formSide, fbVariant, fbStore, feedbacks, fbLoading, fbReqs,
                 statusReqs, sessionVars, pagingVars>>

\* The rows that show the Resolve and Ignore buttons.
ActionRows ==
  IF fbLoading \/ shown # "/feedback" THEN {}
  ELSE {filteredFeedbacks[i] : i \in {j \in 1..Len(filteredFeedbacks) :
                                        filteredFeedbacks[j].status = "pending"}}

\* updateStatus up to its await: a click on Resolve or Ignore.
updateStatus(fb, status) ==
  /\ fb \in ActionRows
  /\ status \in {"resolved", "ignored"}
  /\ BagCardinality(statusReqs) < MaxStatusReqs
  /\ statusReqs' = statusReqs (+) One([id |-> fb.id, status |-> status])
  /\ lastOp' = [Op("updateStatus") EXCEPT !.req.id = fb.id]
  /\ UNCHANGED <<formSide, fbVariant, fbStore, feedbacks, fbLoading, filters,
                 fbReqs, sessionVars, pagingVars>>

\* setFeedbacks(prev => prev.map(...))
withStatus(rows, id, status) ==
  [i \in DOMAIN rows |->
     IF rows[i].id = id THEN [rows[i] EXCEPT !.status = status] ELSE rows[i]]

\* The remote API applies the change and answers; updateStatus after its
\* await.
StatusOk(r) ==
  /\ r \in BagToSet(statusReqs)
  /\ statusReqs' = statusReqs (-) One(r)
  /\ fbStore' = [fbStore EXCEPT ![r.id] = r.status]
  /\ feedbacks' = withStatus(feedbacks, r.id, r.status)
  /\ lastOp' = [Op("StatusOk") EXCEPT !.req.id = r.id]
  /\ UNCHANGED <<formSide, fbVariant, fbLoading, filters, fbReqs,
                 sessionVars, pagingVars>>

StatusFail(r) ==
  /\ r \in BagToSet(statusReqs)
  /\ statusReqs' = statusReqs (-) One(r)
  /\ lastOp' = [Op("StatusFail") EXCEPT !.toast = "error"]
  /\ UNCHANGED <<formSide, fbVariant, fbStore, feedbacks, fbLoading, filters,
                 fbReqs, sessionVars, pagingVars>>


(***************************************************************************)
(* The session: Login, the request interceptor, the route guard, logout.   *)
(***************************************************************************)
PublicRoutes == {"/login", "/register"}
ProtectedRoutes ==
  {"/", "/users", "/feedback", "/questions", "/questions/edit/:id", "/settings"}
Routes == PublicRoutes \cup ProtectedRoutes

\* The access tokens the remote API hands out.
Tokens == {"t1", "t2"}

\* An interceptor that writes the header whatever localStorage holds.
interceptor_Always(config, tok) ==
  [config EXCEPT !.headers = [h \in {"Authorization"} |-> <<"Bearer", tok>>]]

\* axios.interceptors.request.use: tok is what localStorage.getItem finds
\* when the request is sent.
interceptor(config, tok) ==
  IF tok # ""
  THEN [config EXCEPT !.headers = [h \in {"Authorization"} |-> <<"Bearer", tok>>]]
  ELSE config

\* A request as the call site hands it to axios.
Request(url) == [url |-> url, headers |-> [h \in {} |-> << >>]]

\* A guard that renders the protected layout without looking at the token.
ProtectedRoute_NoCheck(path, tok) == path

\* The element the router renders for a path: ProtectedRoute wraps the
\* protected routes and answers with <Navigate to="/login" replace /> when
\* localStorage holds no token.
ProtectedRoute(path, tok) ==
  IF tok = "" THEN "/login" ELSE path

RouteElement(path, tok) ==
  IF path \in ProtectedRoutes THEN ProtectedRoute(path, tok) ELSE path

\* useEffect(..., []) of App: keepAlive() is called and the interval is set.
AppMounts ==
  /\ mounted' = TRUE
  /\ interval' = TRUE
  /\ sinceProbe' = 0
  /\ probeReqs' = 1
  /\ probes' = 1

SessionInit(tok, path) ==
  /\ mounted = TRUE
  /\ interval = TRUE
  /\ sinceProbe = 0
  /\ probeReqs = 1
  /\ probes = 1
  /\ token = tok
  /\ adminUser = IF tok = "" THEN "" ELSE "admin"
  /\ location = RouteElement(path, tok)
  /\ shown = RouteElement(path, tok)
  /\ loginError = ""
  /\ loginReqs = EmptyBag
  \* App mounts: the keep-alive call
  /\ outbox = interceptor(Request("/help"), tok)

\* The Login component unmounts: answers still to come find no component to
\* show an error in.
LoginGone(b, leaving) ==
  IF ~leaving THEN b
  ELSE LET S == BagToSet(b)
           T == {[r EXCEPT !.live = FALSE] : r \in S}
       IN [t \in T |->
             (IF t \in S THEN b[t] ELSE 0)
             + (IF [t EXCEPT !.live = TRUE] \in S
                THEN b[[t EXCEPT !.live = TRUE]] ELSE 0)]

\* A link of the sidebar or of a page, or an address typed in: the router
\* renders the element of the path.
navigate(path) ==
  /\ path \in Routes
  /\ path # location
  /\ location' = RouteElement(path, token)
  /\ shown' = RouteElement(path, token)
  /\ loginReqs' = LoginGone(loginReqs, shown = "/login" /\ shown' # "/login")
  /\ loginError' = IF shown' = "/login" /\ shown = "/login" THEN loginError ELSE ""
  /\ lastOp' = [Op("navigate") EXCEPT !.req.id = path]
  /\ UNCHANGED <<formSide, feedbackVars, token, adminUser, outbox, pagingVars>>

\* A view of the protected layout, or keepAlive, calls the API; when
\* keepAlive runs is left open here, the interval timer is modelled below.
apiCall(url) ==
  /\ url = "/help" \/ (url = shown /\ shown \in ProtectedRoutes)
  /\ outbox' = interceptor(Request(url), token)
  /\ lastOp' = [Op("apiCall") EXCEPT !.req.id = url]
  /\ UNCHANGED <<formSide, feedbackVars, token, adminUser, location, shown,
                 loginError, loginReqs, pagingVars>>

MaxLoginReqs == 1

\* handleLogin up to its await.
handleLogin ==
  /\ shown = "/login"
  /\ BagCardinality(loginReqs) < MaxLoginReqs
  /\ loginReqs' = loginReqs (+) One([live |-> TRUE])
  /\ outbox' = interceptor(Request("/admin/login"), token)
  /\ lastOp' = [Op("handleLogin") EXCEPT !.req.id = "/admin/login"]
  /\ UNCHANGED <<formSide, feedbackVars, token, adminUser, location, shown,
                 loginError, pagingVars>>

\* handleLogin after its await: setItem, setItem, navigate('/').
LoginOk(r, t) ==
  /\ r \in BagToSet(loginReqs)
  /\ t \in Tokens
  /\ token' = t
  /\ adminUser' = "admin"
  /\ location' = RouteElement("/", t)
  /\ shown' = RouteElement("/", t)
  /\ loginReqs' = LoginGone(loginReqs (-) One(r), shown = "/login")
  /\ loginError' = IF shown = "/login" THEN "" ELSE loginError
  /\ lastOp' = [Op("LoginOk") EXCEPT !.req.id = "/"]
  /\ UNCHANGED <<formSide, feedbackVars, outbox, pagingVars>>

\* A failure that is treated like a success but for the tok values.
LoginFail_Navigates(r) ==
  /\ r \in BagToSet(loginReqs)
  /\ loginReqs' = LoginGone(loginReqs (-) One(r), shown = "/login")
  /\ loginError' = IF r.live THEN "Login failed" ELSE loginError
  /\ location' = RouteElement("/", token)
  /\ shown' = RouteElement("/", token)
  /\ lastOp' = Op("LoginFail")
  /\ UNCHANGED <<formSide, feedbackVars, token, adminUser, outbox, pagingVars>>

\* catch: setError(...)
LoginFail(r) ==
  /\ r \in BagToSet(loginReqs)
  /\ loginReqs' = loginReqs (-) One(r)
  /\ loginError' = IF r.live THEN "Login failed" ELSE loginError
  /\ lastOp' = [Op("LoginFail") EXCEPT !.called = r.live]
  /\ UNCHANGED <<formSide, feedbackVars, token, adminUser, location, shown,
                 outbox, pagingVars>>

\* A logout that forgets the user record.
handleLogout_KeepsUser ==
  /\ shown \in ProtectedRoutes
  /\ token' = ""
  /\ location' = "/login"
  /\ shown' = "/login"
  /\ loginError' = ""
  /\ loginReqs' = EmptyBag
  /\ outbox' = interceptor(Request("/help"), "")
  /\ AppMounts
  /\ lastOp' = Op("handleLogout")
  /\ UNCHANGED <<formOnly, feedbackVars, adminUser, pagingVars>>

\* Sidebar.handleLogout: removeItem, removeItem, window.location.href: the
\* page is loaded anew at /admin/login, so what was in memory is gone and
\* the application mounts again (keep-alive call included).
handleLogout ==
  /\ shown \in ProtectedRoutes
  /\ token' = ""
  /\ adminUser' = ""
  /\ location' = "/login"
  /\ shown' = "/login"
  /\ loginError' = ""
  /\ loginReqs' = EmptyBag
  /\ outbox' = interceptor(Request("/help"), "")
  /\ AppMounts
  /\ lastOp' = Op("handleLogout")
  /\ UNCHANGED <<formOnly, feedbackVars, pagingVars>>

(***************************************************************************)
(* The keep-alive probe of App.                                            *)
(***************************************************************************)
KEEPALIVE_MIN == 15
ProbeTickMin == 5
MaxProbes == 3

\* Time passes while the interval timer is set.
ProbeTick ==
  /\ interval
  /\ sinceProbe < KEEPALIVE_MIN
  /\ sinceProbe' = IF sinceProbe + ProbeTickMin < KEEPALIVE_MIN
                   THEN sinceProbe + ProbeTickMin ELSE KEEPALIVE_MIN
  /\ lastOp' = Op("ProbeTick")
  /\ UNCHANGED <<formOnly, feedbackVars, sessionVars, pagingVars, mounted,
                 interval, probeReqs, probes>>

\* The interval timer fires: keepAlive().
keepAlive ==
  /\ interval
  /\ sinceProbe = KEEPALIVE_MIN
  /\ probes < MaxProbes
  /\ sinceProbe' = 0
  /\ probeReqs' = probeReqs + 1
  /\ probes' = probes + 1
  /\ outbox' = interceptor(Request("/help"), token)
  /\ lastOp' = [Op("keepAlive") EXCEPT !.req.id = "/help"]
  /\ UNCHANGED <<formOnly, feedbackVars, token, adminUser, location, shown,
                 loginError, loginReqs, pagingVars, mounted, interval>>

\* .then(() => console.log(...))
ProbeOk ==
  /\ probeReqs > 0
  /\ probeReqs' = probeReqs - 1
  /\ lastOp' = Op("ProbeOk")
  /\ UNCHANGED <<formOnly, feedbackVars, sessionVars, pagingVars, mounted,
                 interval, sinceProbe, probes>>

\* A catch that gives up the probing.
ProbeFail_StopsTimer ==
  /\ probeReqs > 0
  /\ probeReqs' = probeReqs - 1
  /\ interval' = FALSE
  /\ lastOp' = Op("ProbeFail")
  /\ UNCHANGED <<formOnly, feedbackVars, sessionVars, pagingVars, mounted,
                 sinceProbe, probes>>

\* .catch((err) => { }): the error is ignored
ProbeFail ==
  /\ probeReqs > 0
  /\ probeReqs' = probeReqs - 1
  /\ lastOp' = Op("ProbeFail")
  /\ UNCHANGED <<formOnly, feedbackVars, sessionVars, pagingVars, mounted,
                 interval, sinceProbe, probes>>

\* The page is closed: App unmounts, the cleanup of the effect runs
\* clearInterval(interval); the answers still to come find no page.
AppUnmount ==
  /\ mounted
  /\ mounted' = FALSE
  /\ interval' = FALSE
  /\ probeReqs' = 0
  /\ loginReqs' = EmptyBag
  /\ lastOp' = Op("AppUnmount")
  /\ UNCHANGED <<formOnly, feedbackVars, token, adminUser, location, shown,
                 loginError, outbox, pagingVars, sinceProbe, probes>>

\* The page is opened again at the address it was left at.
AppMount ==
  /\ ~mounted
  /\ AppMounts
  /\ shown' = RouteElement(location, token)
  /\ location' = RouteElement(location, token)
  /\ loginError' = ""
  /\ outbox' = interceptor(Request("/help"), token)
  /\ lastOp' = Op("AppMount")
  /\ UNCHANGED <<formOnly, feedbackVars, token, adminUser, loginReqs, pagingVars>>

\* The pagination and filter state of the Questions page when it mounts,
\* and the questions the remote API holds.
PagingInit(held) ==
  /\ page = 1
  /\ totalPages = 1
  /\ search = ""
  /\ difficultyFilter = "all"
  /\ elapsed = 0
  /\ deleteReqs = EmptyBag
  /\ stored = held

(***************************************************************************)
(* The Users page: the detail view and the user form.  The users the       *)
(* remote API holds are an input that stays as it is.                      *)
(***************************************************************************)
UserIds == {"A", "B"}
Names == {"", "n"}
Passwords == {"", "p"}
MaxViewReqs == 2
MaxSubmitReqs == 1
MaxUsersReqs == 1

\* A row of the user list, and the record and statistics of GET
\* /admin/users/:id.
ListUser(u) == [_id |-> u, name |-> "n", from |-> "list"]
DetailUser(u) == [_id |-> u, name |-> "n", from |-> "detail"]
DetailStats(u) == [of |-> u]
NoUser == [_id |-> "", name |-> "", from |-> ""]
NoStats == [of |-> ""]
blankUserForm == [name |-> "", password |-> ""]
NoSubmit == [method |-> "", id |-> "", body |-> [name |-> ""]]

UsersInit ==
  /\ usersLoading = TRUE
  /\ usersDebounce = TRUE
  /\ usersReqs = 0
  /\ isViewModalOpen = FALSE
  /\ viewUser = NoUser
  /\ viewUserStats = NoStats
  /\ loadingStats = FALSE
  /\ viewReqs = EmptyBag
  /\ opened = ""
  /\ isModalOpen = FALSE
  /\ isEditing = FALSE
  /\ currentUser = ""
  /\ userForm = blankUserForm
  /\ submitReqs = EmptyBag
  /\ submitted = NoSubmit

notUsers == <<variant, serverVars, view, editingId, formVars, reqVars, listVars,
              histVars, optionVars, probeVars, feedbackVars, sessionVars,
              pagingVars>>

\* fetchUsers up to its await
fetchUsers ==
  /\ usersLoading' = TRUE
  /\ usersReqs' = usersReqs + 1

\* The 500ms timer of the effect expires.
UsersDebounceFire ==
  /\ usersDebounce
  /\ usersReqs < MaxUsersReqs
  /\ usersDebounce' = FALSE
  /\ fetchUsers
  /\ lastOp' = Op("other")
  /\ UNCHANGED <<notUsers, isViewModalOpen, viewUser, viewUserStats, loadingStats,
                 viewReqs, opened, isModalOpen, isEditing, currentUser, userForm,
                 submitReqs, submitted>>

\* fetchUsers after its await; ok: whether the request succeeded.  The rows
\* are those the remote API holds.
UsersAnswer(ok) ==
  /\ usersReqs > 0
  /\ usersReqs' = usersReqs - 1
  /\ usersLoading' = FALSE
  /\ lastOp' = IF ok THEN Op("UsersOk")
                ELSE [Op("UsersFail") EXCEPT !.toast = "error"]
  /\ UNCHANGED <<notUsers, usersDebounce, isViewModalOpen, viewUser, viewUserStats,
                 loadingStats, viewReqs, opened, isModalOpen, isEditing,
                 currentUser, userForm, submitReqs, submitted>>

\* The rows with their buttons are rendered when the list is not loading
\* and no modal covers them.
UserRowsShown == ~usersLoading /\ ~isViewModalOpen /\ ~isModalOpen

\* handleViewUser up to its await
handleViewUser(u) ==
  /\ UserRowsShown
  /\ BagCardinality(viewReqs) < MaxViewReqs
  /\ isViewModalOpen' = TRUE
  /\ viewUser' = ListUser(u)
  /\ viewUserStats' = NoStats
  /\ loadingStats' = TRUE
  /\ viewReqs' = viewReqs (+) One(u)
  /\ opened' = u
  /\ lastOp' = Op("handleViewUser")
  /\ UNCHANGED <<notUsers, usersLoading, usersDebounce, usersReqs, isModalOpen,
                 isEditing, currentUser, userForm, submitReqs, submitted>>

\* handleViewUser after its await: setViewUser, setViewUserStats, finally
ViewOk(u) ==
  /\ u \in BagToSet(viewReqs)
  /\ viewReqs' = viewReqs (-) One(u)
  /\ viewUser' = DetailUser(u)
  /\ viewUserStats' = DetailStats(u)
  /\ loadingStats' = FALSE
  /\ lastOp' = Op("ViewOk")
  /\ UNCHANGED <<notUsers, usersLoading, usersDebounce, usersReqs,
                 isViewModalOpen, opened, isModalOpen, isEditing, currentUser,
                 userForm, submitReqs, submitted>>

\* catch: toast.error; finally
ViewFail(u) ==
  /\ u \in BagToSet(viewReqs)
  /\ viewReqs' = viewReqs (-) One(u)
  /\ loadingStats' = FALSE
  /\ lastOp' = [Op("ViewFail") EXCEPT !.toast = "error"]
  /\ UNCHANGED <<notUsers, usersLoading, usersDebounce, usersReqs,
                 isViewModalOpen, viewUser, viewUserStats, opened, isModalOpen,
                 isEditing, currentUser, userForm, submitReqs, submitted>>

\* The close buttons of the detail view
closeView ==
  /\ isViewModalOpen
  /\ isViewModalOpen' = FALSE
  /\ lastOp' = Op("other")
  /\ UNCHANGED <<notUsers, usersLoading, usersDebounce, usersReqs, viewUser,
                 viewUserStats, loadingStats, viewReqs, opened, isModalOpen,
                 isEditing, currentUser, userForm, submitReqs, submitted>>

\* handleOpenModal(user); u = "" is the Add User button
handleOpenModal(u) ==
  /\ IF u = "" THEN ~isViewModalOpen /\ ~isModalOpen ELSE UserRowsShown
  /\ isEditing' = (u # "")
  /\ currentUser' = u
  /\ userForm' = IF u # "" THEN [name |-> ListUser(u).name, password |-> ""]
                  ELSE blankUserForm
  /\ isModalOpen' = TRUE
  /\ lastOp' = Op("other")
  /\ UNCHANGED <<notUsers, usersLoading, usersDebounce, usersReqs,
                 isViewModalOpen, viewUser, viewUserStats, loadingStats,
                 viewReqs, opened, submitReqs, submitted>>

\* The X and Cancel buttons of the user form
closeUserForm ==
  /\ isModalOpen
  /\ isModalOpen' = FALSE
  /\ lastOp' = Op("other")
  /\ UNCHANGED <<notUsers, usersLoading, usersDebounce, usersReqs,
                 isViewModalOpen, viewUser, viewUserStats, loadingStats,
                 viewReqs, opened, isEditing, currentUser, userForm,
                 submitReqs, submitted>>

\* onChange of the name and password inputs
setUserField(field, v) ==
  /\ isModalOpen
  /\ v # userForm[field]
  /\ userForm' = [userForm EXCEPT ![field] = v]
  /\ lastOp' = Op("other")
  /\ UNCHANGED <<notUsers, usersLoading, usersDebounce, usersReqs,
                 isViewModalOpen, viewUser, viewUserStats, loadingStats,
                 viewReqs, opened, isModalOpen, isEditing, currentUser,
                 submitReqs, submitted>>

\* const { password, ...payload } = formData
payload(fd) == [f \in DOMAIN fd \ {"password"} |-> fd[f]]

\* const finalPayload = password ? { ...payload, password } : payload
finalPayload(fd) == IF fd.password # "" THEN fd ELSE payload(fd)

\* handleSubmit up to its await; the name input is required.  Both
\* branches hand payload, not finalPayload, to axios.
handleSubmit ==
  /\ isModalOpen
  /\ userForm.name # ""
  /\ BagCardinality(submitReqs) < MaxSubmitReqs
  /\ submitted' = IF isEditing /\ currentUser # ""
                   THEN [method |-> "put", id |-> currentUser,
                         body |-> payload(userForm)]
                   ELSE [method |-> "post", id |-> "",
                         body |-> payload(userForm)]
  /\ submitReqs' = submitReqs (+) One(submitted')
  /\ lastOp' = Op("handleSubmit")
  /\ UNCHANGED <<notUsers, usersLoading, usersDebounce, usersReqs,
                 isViewModalOpen, viewUser, viewUserStats, loadingStats,
                 viewReqs, opened, isModalOpen, isEditing, currentUser,
                 userForm>>

\* handleSubmit after its await: toast.success, setIsModalOpen(false),
\* fetchUsers()
SubmitOk(r) ==
  /\ r \in BagToSet(submitReqs)
  /\ usersReqs < MaxUsersReqs
  /\ submitReqs' = submitReqs (-) One(r)
  /\ isModalOpen' = FALSE
  /\ fetchUsers
  /\ lastOp' = Op("SubmitOk")
  /\ UNCHANGED <<notUsers, usersDebounce, isViewModalOpen, viewUser,
                 viewUserStats, loadingStats, viewReqs, opened, isEditing,
                 currentUser, userForm, submitted>>

\* catch: toast.error
SubmitFail(r) ==
  /\ r \in BagToSet(submitReqs)
  /\ submitReqs' = submitReqs (-) One(r)
  /\ lastOp' = [Op("SubmitFail") EXCEPT !.toast = "error"]
  /\ UNCHANGED <<notUsers, usersLoading, usersDebounce, usersReqs,
                 isViewModalOpen, viewUser, viewUserStats, loadingStats,
                 viewReqs, opened, isModalOpen, isEditing, currentUser,
                 userForm, submitted>>

\* The Questions page and its forms.
FormInit ==
  /\ variant \in Variants
  /\ db = InitialDb
  /\ lastOk = NoSave
  /\ updates = 0
  /\ view = "list"
  /\ editingId = ""
  /\ formData = initialFormState
  /\ subjects = << >>
  /\ units = << >>
  /\ loading = FALSE
  /\ formLoading = FALSE
  \* the Questions page fetches the subjects when it mounts
  /\ subjectReqs = IF variant = "Questions" THEN 1 ELSE 0
  /\ unitReqs = EmptyBag
  /\ loadReqs = EmptyBag
  /\ saveReqs = EmptyBag
  /\ questions = << >>
  /\ listLoading = TRUE
  /\ listReqs = EmptyBag
  /\ debounce = TRUE
  /\ loaded = NoLoad
  /\ touched = FALSE
  /\ options = ""
  /\ initialOptions = ""
  /\ lastOp = Op("mount")

\* An administrator who is logged in, at the Questions page.
Init ==
  /\ FormInit
  /\ FeedbackInit
  /\ SessionInit("t1", "/questions")
  /\ PagingInit({"Q1", "Q2"})
  /\ UsersInit

(***************************************************************************)
(* Effects shared by the handlers.                                         *)
(***************************************************************************)
\* useEffect(..., [formData.subjectId]): runs when the subject id changed.
UnitsBudget(newSubj) ==
  \/ newSubj = formData.subjectId
  \/ newSubj = ""
  \/ BagCardinality(unitReqs) < MaxUnitReqs

UnitsEffect(newSubj) ==
  IF newSubj = formData.subjectId THEN UNCHANGED <<units, unitReqs>>
  ELSE IF newSubj # ""
       THEN /\ unitReqs' = unitReqs (+) One(newSubj)
            /\ UNCHANGED units
       ELSE /\ units' = << >>
            /\ UNCHANGED unitReqs

\* fetchQuestions up to its await.  expect, after: the update the store
\* applied last, and how many it applied, when the request is sent.
\* params: page, search and difficulty of the render whose fetchQuestions
\* is called.
fetchQuestionsOf(params, expect, after) ==
  /\ listLoading' = TRUE
  /\ listReqs' = listReqs (+) One([done |-> FALSE, rows |-> << >>,
                                   totalPages |-> 0, params |-> params,
                                   expect |-> expect, after |-> after])

fetchQuestions(expect, after) ==
  fetchQuestionsOf(ListParams(page, search, difficultyFilter), expect, after)

ListBudget == BagCardinality(listReqs) < MaxListReqs

\* The Questions list component mounts: state of useState, timer armed.
ListMount ==
  /\ questions' = << >>
  /\ listLoading' = TRUE
  /\ listReqs' = EmptyBag
  /\ debounce' = TRUE

\* The Questions list component unmounts: the timer is cleared and the
\* responses still to come find no component to update.
ListUnmount ==
  /\ questions' = << >>
  /\ listLoading' = TRUE
  /\ listReqs' = EmptyBag
  /\ debounce' = FALSE

\* QuestionForm unmounts: its state is gone, responses still to come find
\* no component to update; a save already sent stays on its way.
MarkOrphans(b) ==
  LET S == BagToSet(b)
      T == {[r EXCEPT !.live = FALSE] : r \in S}
  IN [t \in T |->
        (IF t \in S THEN b[t] ELSE 0)
        + (IF [t EXCEPT !.live = TRUE] \in S THEN b[[t EXCEPT !.live = TRUE]] ELSE 0)]

FormUnmount(b) ==
  /\ formData' = initialFormState
  /\ options' = initialOptions
  /\ subjects' = << >>
  /\ units' = << >>
  /\ loading' = FALSE
  /\ formLoading' = FALSE
  /\ subjectReqs' = 0
  /\ unitReqs' = EmptyBag
  /\ loadReqs' = EmptyBag
  /\ saveReqs' = MarkOrphans(b)
  /\ loaded' = NoLoad
  /\ touched' = FALSE

\* The detail request of an edit session.
LoadBudget == BagCardinality(loadReqs) < MaxLoadReqs
IssueLoad(qid) ==
  /\ loading' = TRUE
  /\ loadReqs' = loadReqs (+) One([id |-> qid, done |-> FALSE, row |-> NoRow])

RowsShown == view \in {"list", "modal"} /\ ~listLoading


(***************************************************************************)
(* Host of QuestionEditModal: the Questions page that passes isOpen and    *)
(* questionId to the modal, which stays mounted and keeps its state.       *)
(***************************************************************************)
handleEdit_Modal(q) ==
  /\ variant = "QuestionEditModal"
  /\ view = "list" /\ RowsShown
  /\ subjectReqs < MaxSubjectReqs /\ LoadBudget
  /\ editingId' = q.id
  /\ view' = "modal"
  /\ subjectReqs' = subjectReqs + 1
  /\ IssueLoad(q.id)
  /\ lastOp' = Op("other")
  /\ UNCHANGED <<variant, appVars, serverVars, formData, subjects, units, formLoading,
                 unitReqs, saveReqs, listVars, histVars>>

handleAddNew_Modal ==
  /\ variant = "QuestionEditModal"
  /\ view = "list"
  /\ subjectReqs < MaxSubjectReqs
  /\ editingId' = ""
  /\ view' = "modal"
  /\ subjectReqs' = subjectReqs + 1
  /\ formData' = initialFormState
  /\ options' = initialOptions
  /\ UnitsEffect("")
  /\ loaded' = NoLoad
  /\ touched' = FALSE
  /\ lastOp' = Op("other")
  /\ UNCHANGED <<variant, restVars, initialOptions, serverVars, subjects, loading, formLoading,
                 loadReqs, saveReqs, listVars>>

closeModal_Modal ==
  /\ variant = "QuestionEditModal"
  /\ view = "modal"
  /\ view' = "list"
  /\ editingId' = ""
  /\ lastOp' = Op("other")
  /\ UNCHANGED <<variant, appVars, serverVars, formVars, reqVars, listVars, histVars>>

(***************************************************************************)
(* The Questions page with the inline form.                                *)
(***************************************************************************)
handleEdit_Inline(q) ==
  /\ variant = "Questions"
  /\ view = "list" /\ RowsShown
  /\ UnitsBudget(populateFromRow(q).subjectId)
  /\ editingId' = q.id
  /\ formData' = populateFromRow(q)
  /\ options' = ServerOptionText
  /\ UnitsEffect(populateFromRow(q).subjectId)
  /\ view' = "modal"
  /\ loaded' = [set |-> TRUE, id |-> q.id, unitId |-> q.unitId,
                 chapterId |-> q.chapterId]
  /\ touched' = FALSE
  /\ lastOp' = Op("other")
  /\ UNCHANGED <<variant, restVars, initialOptions, serverVars, subjects, loading, formLoading, subjectReqs,
                 loadReqs, saveReqs, listVars>>

handleAddNew_Inline ==
  /\ variant = "Questions"
  /\ view = "list"
  /\ editingId' = ""
  /\ formData' = initialFormState
  /\ options' = initialOptions
  /\ UnitsEffect("")
  /\ view' = "modal"
  /\ loaded' = NoLoad
  /\ touched' = FALSE
  /\ lastOp' = Op("other")
  /\ UNCHANGED <<variant, restVars, initialOptions, serverVars, subjects, loading, formLoading, subjectReqs,
                 loadReqs, saveReqs, listVars>>

closeModal_Inline ==
  /\ variant = "Questions"
  /\ view = "modal"
  /\ view' = "list"
  /\ lastOp' = Op("other")
  /\ UNCHANGED <<variant, appVars, serverVars, editingId, formVars, reqVars, listVars,
                 histVars>>

(***************************************************************************)
(* Hosts of QuestionForm: the Questions page that navigates to             *)
(* QuestionEditPage to edit and opens the form in a modal to create.  The  *)
(* form is mounted when shown and unmounted when hidden.                   *)
(***************************************************************************)
\* The list component unmounts: the callbacks it handed out belong to a
\* component that is gone.
HostGone(b) ==
  LET S == BagToSet(b)
      T == {[r EXCEPT !.hostLive = FALSE] : r \in S}
  IN [t \in T |->
        (IF t \in S THEN b[t] ELSE 0)
        + (IF [t EXCEPT !.hostLive = TRUE] \in S /\ t.hostLive = FALSE
           THEN b[[t EXCEPT !.hostLive = TRUE]] ELSE 0)]

handleEdit_Form(q) ==
  /\ variant = "QuestionForm"
  /\ view = "list" /\ RowsShown
  /\ view' = "page"
  /\ editingId' = q.id
  /\ ListUnmount
  /\ subjectReqs' = 1
  /\ IssueLoad(q.id)
  /\ saveReqs' = HostGone(saveReqs)
  /\ lastOp' = Op("other")
  /\ UNCHANGED <<variant, appVars, serverVars, formData, subjects, units, formLoading,
                 unitReqs, histVars>>

handleAddNew_Form ==
  /\ variant = "QuestionForm"
  /\ view = "list"
  /\ view' = "modal"
  /\ editingId' = ""
  /\ subjectReqs' = 1
  /\ lastOp' = Op("other")
  /\ UNCHANGED <<variant, appVars, serverVars, formVars, unitReqs, loadReqs, saveReqs,
                 listVars, histVars>>

closeModal_Form ==
  /\ variant = "QuestionForm"
  /\ view = "modal"
  /\ view' = "list"
  /\ FormUnmount(saveReqs)
  /\ lastOp' = Op("other")
  /\ UNCHANGED <<variant, restVars, initialOptions, serverVars, editingId, listVars>>

\* QuestionEditPage: "Back to List" and handleCancel, navigate(-1)
handleCancel_Page ==
  /\ variant = "QuestionForm"
  /\ view = "page"
  /\ view' = "list"
  /\ editingId' = ""
  /\ FormUnmount(saveReqs)
  /\ ListMount
  /\ lastOp' = Op("other")
  /\ UNCHANGED <<variant, restVars, initialOptions, serverVars>>

\* The user comes back to /questions after a navigation led elsewhere.
ReturnToList ==
  /\ variant = "QuestionForm"
  /\ view = "away"
  /\ view' = "list"
  /\ ListMount
  /\ lastOp' = Op("other")
  /\ UNCHANGED <<variant, appVars, serverVars, editingId, formVars, reqVars, histVars>>


(***************************************************************************)
(* The form: what is rendered, and the selectors' option sets.             *)
(***************************************************************************)
Open == view \in {"modal", "page"}

\* QuestionForm renders nothing but a notice while loadingData;
\* QuestionEditModal hides the body, not the footer, while loading.
FormRendered == Open /\ (variant = "Questions" \/ ~loading)

\* A Save button that the saving flag does not disable.
SaveEnabled_WhileSaving == Open /\ (variant = "QuestionForm" => ~loading)

SaveEnabled == Open /\ ~formLoading /\ (variant = "QuestionForm" => ~loading)

SubjectOptions == {""} \cup SeqIds(subjects, "subjectId")

UnitOptions == {""} \cup SeqIds(units, "unitId")
UnitEnabled == formData.subjectId # ""

AvailableChapterIds == SeqIds(getAvailableChapters(units, formData.unitId), "id")

\* The "Unknown Chapter (Preserved)" option of QuestionForm and
\* QuestionEditModal; the inline form has none.
PreservedChapter ==
  IF variant # "Questions" /\ formData.chapterId # ""
     /\ formData.chapterId \notin AvailableChapterIds
  THEN {formData.chapterId} ELSE {}

ChapterOptions == {""} \cup AvailableChapterIds \cup PreservedChapter
ChapterEnabled == formData.unitId # ""

\* A select whose value matches no option displays its first option; the
\* change event fires when the user picks another option than the one
\* displayed.
Shown(cur, opts) == IF cur \in opts THEN cur ELSE ""

\* onChange of an option input: newOpts = [...formData.options] copies the
\* array, not the option objects; newOpts[idx].text.en = ... writes to the
\* object the form holds.  A form that was set from initialFormState holds
\* the option objects of initialFormState itself; a form populated from a
\* stored question holds the objects of the response.
SetOptionText(v) ==
  /\ FormRendered
  /\ v # options
  /\ options' = v
  /\ initialOptions' = IF loaded.set THEN initialOptions ELSE v
  /\ lastOp' = Op("other")
  /\ UNCHANGED <<variant, restVars, serverVars, view, editingId, formVars, reqVars,
                 listVars, histVars>>

SetQuestionText(lang, v) ==
  /\ FormRendered
  /\ v # formData.questionText[lang]
  /\ formData' = [formData EXCEPT !.questionText[lang] = v]
  /\ lastOp' = Op("other")
  /\ UNCHANGED <<variant, appVars, serverVars, view, editingId, subjects, units, loading,
                 formLoading, reqVars, listVars, histVars>>

SetDifficulty(d) ==
  /\ FormRendered
  /\ d # formData.difficulty
  /\ formData' = [formData EXCEPT !.difficulty = d]
  /\ lastOp' = Op("other")
  /\ UNCHANGED <<variant, appVars, serverVars, view, editingId, subjects, units, loading,
                 formLoading, reqVars, listVars, histVars>>

\* A subject selector that resets the unit only.
SelectSubject_KeepsChapter(s) ==
  /\ FormRendered
  /\ s \in SubjectOptions
  /\ s # Shown(formData.subjectId, SubjectOptions)
  /\ UnitsBudget(s)
  /\ formData' = [formData EXCEPT !.subjectId = s, !.unitId = ""]
  /\ UnitsEffect(s)
  /\ touched' = TRUE
  /\ lastOp' = Op("SelectSubject")
  /\ UNCHANGED <<variant, appVars, serverVars, view, editingId, subjects, loading,
                 formLoading, subjectReqs, loadReqs, saveReqs, listVars, loaded>>

SelectSubject(s) ==
  /\ FormRendered
  /\ s \in SubjectOptions
  /\ s # Shown(formData.subjectId, SubjectOptions)
  /\ UnitsBudget(s)
  /\ formData' = [formData EXCEPT !.subjectId = s, !.unitId = "", !.chapterId = ""]
  /\ UnitsEffect(s)
  /\ touched' = TRUE
  /\ lastOp' = Op("SelectSubject")
  /\ UNCHANGED <<variant, appVars, serverVars, view, editingId, subjects, loading,
                 formLoading, subjectReqs, loadReqs, saveReqs, listVars, loaded>>

\* A unit selector that leaves the chapter as it is.
SelectUnit_KeepsChapter(u) ==
  /\ FormRendered
  /\ UnitEnabled
  /\ u \in UnitOptions
  /\ u # Shown(formData.unitId, UnitOptions)
  /\ formData' = [formData EXCEPT !.unitId = u]
  /\ touched' = TRUE
  /\ lastOp' = Op("SelectUnit")
  /\ UNCHANGED <<variant, appVars, serverVars, view, editingId, subjects, units, loading,
                 formLoading, reqVars, listVars, loaded>>

SelectUnit(u) ==
  /\ FormRendered
  /\ UnitEnabled
  /\ u \in UnitOptions
  /\ u # Shown(formData.unitId, UnitOptions)
  /\ formData' = [formData EXCEPT !.unitId = u, !.chapterId = ""]
  /\ touched' = TRUE
  /\ lastOp' = Op("SelectUnit")
  /\ UNCHANGED <<variant, appVars, serverVars, view, editingId, subjects, units, loading,
                 formLoading, reqVars, listVars, loaded>>

SelectChapter(c) ==
  /\ FormRendered
  /\ ChapterEnabled
  /\ c \in ChapterOptions
  /\ c # Shown(formData.chapterId, ChapterOptions)
  /\ formData' = [formData EXCEPT !.chapterId = c]
  /\ touched' = TRUE
  /\ lastOp' = Op("SelectChapter")
  /\ UNCHANGED <<variant, appVars, serverVars, view, editingId, subjects, units, loading,
                 formLoading, reqVars, listVars, loaded>>

(***************************************************************************)
(* handleSave up to its await.                                             *)
(***************************************************************************)
BoundId == IF variant = "QuestionForm" THEN IdToUpdate(editingId, "") ELSE editingId

\* A save that always posts a new question.
SaveRequest_AlwaysCreate(fd, qid) ==
  [kind |-> "create", id |-> "", payload |-> CleanPayload(fd)]

SaveRequest(fd, qid) ==
  [kind |-> IF qid # "" THEN "update" ELSE "create",
   id |-> qid,
   payload |-> CleanPayload(fd)]

\* The request on its way.  wire is the payload that travels with it.
InFlight(r, host, wire) ==
  [kind |-> r.kind, id |-> r.id, payload |-> wire,
   live |-> TRUE, hostLive |-> TRUE, host |-> host]

\* kept: whether the copy of the payload that travels with the request is
\* kept in the state (the specification that follows the store needs it to
\* apply the update; what was sent is recorded in lastOp in either case).
\* most: how many save requests the model lets be on their way at once,
\* those of forms that are gone included.
handleSaveUpTo(kept, most) ==
  /\ SaveEnabled
  /\ IF ~Valid(formData)
     THEN \* setFormLoading(true) ... setFormLoading(false); return; finally
          /\ formLoading' = FALSE
          /\ lastOp' = Op("handleSave")
          /\ UNCHANGED saveReqs
     ELSE /\ BagCardinality(saveReqs) < most
          /\ formLoading' = TRUE
          /\ saveReqs' = saveReqs (+)
               One(InFlight(SaveRequest(formData, BoundId), view,
                            IF kept THEN CleanPayload(formData) ELSE NoSave.payload))
          /\ lastOp' = [Op("handleSave") EXCEPT
                          !.req = SaveRequest(formData, BoundId)]
  /\ UNCHANGED <<variant, appVars, serverVars, view, editingId, formData, subjects,
                 units, loading, subjectReqs, unitReqs, loadReqs, listVars,
                 loaded, touched>>

handleSave(kept) == handleSaveUpTo(kept, MaxSaveReqs)

(***************************************************************************)
(* handleSave after its await: the answer to a create / update request.    *)
(***************************************************************************)
\* The server applies an update before it answers; created rows are not
\* among the tracked questions.
Applied(r) ==
  IF r.kind = "update" THEN [db EXCEPT ![r.id] = ServerPatch(@, r.payload)]
  ELSE db

\* What a request in flight was sent with.
Sent(r) == [kind |-> r.kind, id |-> r.id, payload |-> r.payload]

\* The store follows the saves of this client.
StoreFollows(r) ==
  /\ db' = Applied(r)
  /\ lastOk' = IF r.kind = "update" THEN Sent(r) ELSE lastOk
  /\ updates' = IF r.kind = "update" THEN updates + 1 ELSE updates

\* The store is left as it is (its content is an input of the run).
StoreFixed == UNCHANGED serverVars

\* A handleSaveSuccess that closes the modal without fetching the list.
SaveOk_Modal_NoRefetch(r) ==
  /\ variant = "QuestionEditModal"
  /\ r \in BagToSet(saveReqs)
  /\ saveReqs' = saveReqs (-) One(r)
  /\ view' = "list"
  /\ editingId' = ""
  /\ formLoading' = FALSE
  /\ lastOp' = [Op("SaveOk") EXCEPT !.called = TRUE]
  /\ UNCHANGED <<variant, appVars, formData, subjects, units, loading, subjectReqs,
                 unitReqs, loadReqs, listVars, loaded, touched>>

\* QuestionEditModal: onSaveSuccess() is handleSaveSuccess (fetchQuestions,
\* closeModal), then onClose(), then finally setFormLoading(false).
SaveOk_Modal(r) ==
  /\ variant = "QuestionEditModal"
  /\ r \in BagToSet(saveReqs)
  /\ ListBudget
  /\ saveReqs' = saveReqs (-) One(r)
  /\ fetchQuestions(lastOk', updates')
  /\ view' = "list"
  /\ editingId' = ""
  /\ formLoading' = FALSE
  /\ lastOp' = [Op("SaveOk") EXCEPT !.called = TRUE]
  /\ UNCHANGED <<variant, appVars, formData, subjects, units, loading, subjectReqs,
                 unitReqs, loadReqs, questions, debounce,
                 loaded, touched>>

\* Inline form: setShowModal(false); fetchQuestions(); finally.
SaveOk_Inline(r) ==
  /\ variant = "Questions"
  /\ r \in BagToSet(saveReqs)
  /\ ListBudget
  /\ saveReqs' = saveReqs (-) One(r)
  /\ fetchQuestions(lastOk', updates')
  /\ view' = "list"
  /\ formLoading' = FALSE
  /\ lastOp' = Op("SaveOk")
  /\ UNCHANGED <<variant, appVars, editingId, formData, subjects, units, loading,
                 subjectReqs, unitReqs, loadReqs, questions, debounce,
                 histVars>>

\* QuestionForm on QuestionEditPage: onSuccess() is navigate(-1).
SaveOk_Page(r) ==
  /\ variant = "QuestionForm"
  /\ r \in BagToSet(saveReqs)
  /\ r.host = "page"
  /\ IF view = "page"
     THEN /\ view' = "list"
          /\ editingId' = ""
          /\ FormUnmount(saveReqs (-) One(r))
          /\ ListMount
     ELSE IF view = "away"
     THEN /\ saveReqs' = saveReqs (-) One(r)
          /\ UNCHANGED <<view, editingId, formVars, options, subjectReqs, unitReqs,
                         loadReqs, listVars, loaded, touched>>
     ELSE /\ view' = "away"
          /\ FormUnmount(HostGone(saveReqs (-) One(r)))
          /\ ListUnmount
          /\ UNCHANGED editingId
  /\ lastOp' = [Op("SaveOk") EXCEPT !.called = TRUE]
  /\ UNCHANGED <<variant, restVars, initialOptions>>

\* QuestionForm in the create modal: onSuccess() is closeModal();
\* fetchQuestions() of the Questions component that rendered it.
SaveOk_Create(r) ==
  /\ variant = "QuestionForm"
  /\ r \in BagToSet(saveReqs)
  /\ r.host = "modal"
  /\ IF ~r.hostLive
     THEN /\ saveReqs' = saveReqs (-) One(r)
          /\ UNCHANGED <<view, formVars, options, subjectReqs, unitReqs, loadReqs,
                         listVars, loaded, touched>>
     ELSE /\ ListBudget
          /\ fetchQuestions(lastOk', updates')
          /\ UNCHANGED <<questions, debounce>>
          /\ view' = "list"
          /\ FormUnmount(saveReqs (-) One(r))
  /\ lastOp' = [Op("SaveOk") EXCEPT !.called = TRUE]
  /\ UNCHANGED <<variant, restVars, initialOptions, editingId>>

\* catch: toast.error; finally setFormLoading(false)
SaveFail(r) ==
  /\ r \in BagToSet(saveReqs)
  /\ saveReqs' = saveReqs (-) One(r)
  /\ formLoading' = IF variant = "QuestionForm" /\ ~r.live THEN formLoading ELSE FALSE
  /\ lastOp' = [Op("SaveFail") EXCEPT !.toast = "error"]
  /\ UNCHANGED <<variant, appVars, serverVars, view, editingId, formData, subjects, units,
                 loading, subjectReqs, unitReqs, loadReqs, listVars, histVars>>

(***************************************************************************)
(* Answers to the subjects, units and detail requests.                     *)
(***************************************************************************)
SubjectsOk ==
  /\ subjectReqs > 0
  /\ subjectReqs' = subjectReqs - 1
  /\ subjects' = ServerSubjects
  /\ lastOp' = Op("other")
  /\ UNCHANGED <<variant, appVars, serverVars, view, editingId, formData, units, loading,
                 formLoading, unitReqs, loadReqs, saveReqs, listVars, histVars>>

SubjectsFail ==
  /\ subjectReqs > 0
  /\ subjectReqs' = subjectReqs - 1
  /\ lastOp' = Op("other")
  /\ UNCHANGED <<variant, appVars, serverVars, view, editingId, formVars, unitReqs,
                 loadReqs, saveReqs, listVars, histVars>>

\* setUnits(res.data.units || [])
UnitsOk(s) ==
  /\ s \in BagToSet(unitReqs)
  /\ unitReqs' = unitReqs (-) One(s)
  /\ units' = ServerUnits(s)
  /\ lastOp' = Op("other")
  /\ UNCHANGED <<variant, appVars, serverVars, view, editingId, formData, subjects,
                 loading, formLoading, subjectReqs, loadReqs, saveReqs,
                 listVars, histVars>>

\* catch: console.error only
UnitsFail(s) ==
  /\ s \in BagToSet(unitReqs)
  /\ unitReqs' = unitReqs (-) One(s)
  /\ lastOp' = [Op("UnitsFail") EXCEPT !.req.id = s]
  /\ UNCHANGED <<variant, appVars, serverVars, view, editingId, formVars, subjectReqs,
                 loadReqs, saveReqs, listVars, histVars>>

\* The server reads the question some time before its answer arrives.
ServerLoad(r) ==
  /\ r \in BagToSet(loadReqs)
  /\ ~r.done
  /\ loadReqs' = (loadReqs (-) One(r)) (+) One([r EXCEPT !.done = TRUE, !.row = db[r.id]])
  /\ lastOp' = Op("other")
  /\ UNCHANGED <<variant, appVars, serverVars, view, editingId, formVars, subjectReqs,
                 unitReqs, saveReqs, listVars, histVars>>

LoadOk(r, rep) ==
  LET fd == populateForm(DetailResponse(r.row, rep)) IN
  /\ r \in BagToSet(loadReqs)
  /\ r.done
  /\ UnitsBudget(fd.subjectId)
  /\ loadReqs' = loadReqs (-) One(r)
  /\ formData' = fd
  /\ options' = ServerOptionText
  /\ UnitsEffect(fd.subjectId)
  /\ loading' = FALSE
  /\ loaded' = [set |-> TRUE, id |-> r.id, unitId |-> r.row.unitId,
                 chapterId |-> r.row.chapterId]
  /\ touched' = FALSE
  /\ lastOp' = Op("other")
  /\ UNCHANGED <<variant, restVars, initialOptions, serverVars, view, editingId, subjects, formLoading,
                 subjectReqs, saveReqs, listVars>>

LoadFail(r) ==
  /\ r \in BagToSet(loadReqs)
  /\ loadReqs' = loadReqs (-) One(r)
  /\ loading' = FALSE
  /\ lastOp' = [Op("LoadFail") EXCEPT !.toast = "error"]
  /\ UNCHANGED <<variant, appVars, serverVars, view, editingId, formData, subjects, units,
                 formLoading, subjectReqs, unitReqs, saveReqs, listVars,
                 histVars>>

(***************************************************************************)
(* The question list.                                                      *)
(***************************************************************************)
\* The 500ms timer expires: fetchQuestions().
\* most: how many list requests the model lets be on their way at once.
DebounceFireUpTo(most) ==
  /\ debounce
  /\ BagCardinality(listReqs) < most
  /\ debounce' = FALSE
  /\ fetchQuestions(lastOk, updates)
  /\ lastOp' = Op("other")
  /\ UNCHANGED <<variant, appVars, serverVars, view, editingId, formVars, reqVars,
                 questions, histVars>>

DebounceFire == DebounceFireUpTo(MaxListReqs)

ServerList(r) ==
  /\ r \in BagToSet(listReqs)
  /\ ~r.done
  /\ listReqs' = (listReqs (-) One(r))
                 (+) One([r EXCEPT
                            !.done = TRUE,
                            !.rows = ListResponse(db, stored, r.params).questions,
                            !.totalPages = ListResponse(db, stored, r.params).totalPages])
  /\ lastOp' = Op("other")
  /\ UNCHANGED <<variant, appVars, serverVars, view, editingId, formVars, reqVars,
                 questions, listLoading, debounce, histVars>>

\* A list that takes only the response to the parameters now selected.
ListOk_Sequenced(r) ==
  /\ r \in BagToSet(listReqs)
  /\ r.done
  /\ listReqs' = listReqs (-) One(r)
  /\ IF r.params = ListParams(page, search, difficultyFilter)
     THEN questions' = r.rows /\ totalPages' = r.totalPages
     ELSE UNCHANGED <<questions, totalPages>>
  /\ listLoading' = FALSE
  /\ lastOp' = [Op("ListOk") EXCEPT !.req = r.expect, !.after = r.after]
  /\ UNCHANGED <<variant, optionVars, probeVars, usersVars, feedbackVars, sessionVars,
                 page, search,
                 difficultyFilter, elapsed, deleteReqs, stored, serverVars,
                 view, editingId, formVars, reqVars, debounce, histVars>>

ListOk(r) ==
  /\ r \in BagToSet(listReqs)
  /\ r.done
  /\ listReqs' = listReqs (-) One(r)
  /\ questions' = r.rows
  /\ totalPages' = r.totalPages
  /\ listLoading' = FALSE
  /\ lastOp' = [Op("ListOk") EXCEPT !.req = r.expect, !.after = r.after]
  /\ UNCHANGED <<variant, optionVars, probeVars, usersVars, feedbackVars, sessionVars,
                 page, search,
                 difficultyFilter, elapsed, deleteReqs, stored, serverVars,
                 view, editingId, formVars, reqVars, debounce, histVars>>

ListFail(r) ==
  /\ r \in BagToSet(listReqs)
  /\ listReqs' = listReqs (-) One(r)
  /\ listLoading' = FALSE
  /\ lastOp' = Op("other")
  /\ UNCHANGED <<variant, appVars, serverVars, view, editingId, formVars, reqVars,
                 questions, debounce, histVars>>

(***************************************************************************)
(* Specification.                                                          *)
(***************************************************************************)
Rows == {questions[i] : i \in 1..Len(questions)}

\* Answers of the server and of the timers: neither the user nor the store
\* takes part.
Answers ==
  \/ \E r \in BagToSet(saveReqs) : SaveFail(r)
  \/ SubjectsOk
  \/ SubjectsFail
  \/ \E s \in BagToSet(unitReqs) : UnitsOk(s)
  \/ \E s \in BagToSet(unitReqs) : UnitsFail(s)
  \/ \E r \in BagToSet(loadReqs) : ServerLoad(r)
  \/ \E r \in BagToSet(loadReqs), rep \in RepChoices : LoadOk(r, rep)
  \/ \E r \in BagToSet(loadReqs) : LoadFail(r)
  \/ DebounceFire
  \/ \E r \in BagToSet(listReqs) : ServerList(r)
  \/ \E r \in BagToSet(listReqs) : ListOk(r)
  \/ \E r \in BagToSet(listReqs) : ListFail(r)

\* Opening and leaving the forms.
Navigation ==
  \/ \E q \in Rows : handleEdit_Modal(q)
  \/ handleAddNew_Modal
  \/ closeModal_Modal
  \/ \E q \in Rows : handleEdit_Inline(q)
  \/ handleAddNew_Inline
  \/ closeModal_Inline
  \/ \E q \in Rows : handleEdit_Form(q)
  \/ handleAddNew_Form
  \/ closeModal_Form
  \/ handleCancel_Page
  \/ ReturnToList

\* The forms with their texts and their classification selectors; the content
\* of the store is an input that stays as it is.
Next ==
  \/ Navigation
  \/ \E lang \in {"en", "hi"}, v \in TextValues : SetQuestionText(lang, v)
  \/ \E s \in SubjectOptions : SelectSubject(s)
  \/ \E u \in UnitOptions : SelectUnit(u)
  \/ \E c \in ChapterOptions : SelectChapter(c)
  \/ handleSave(FALSE)
  \/ \E r \in BagToSet(saveReqs) : StoreFixed /\ SaveOk_Modal(r)
  \/ \E r \in BagToSet(saveReqs) : StoreFixed /\ SaveOk_Inline(r)
  \/ \E r \in BagToSet(saveReqs) : StoreFixed /\ SaveOk_Page(r)
  \/ \E r \in BagToSet(saveReqs) : StoreFixed /\ SaveOk_Create(r)
  \/ Answers

Spec == Init /\ [][Next]_vars

\* Opening stored questions for editing, and leaving the form.
NavigationEdit ==
  \/ \E q \in Rows : handleEdit_Modal(q)
  \/ closeModal_Modal
  \/ \E q \in Rows : handleEdit_Inline(q)
  \/ closeModal_Inline
  \/ \E q \in Rows : handleEdit_Form(q)
  \/ handleCancel_Page
  \/ ReturnToList

\* Editing the difficulty of stored questions: the store follows the saves,
\* and the list shows what the store answers.
NextEdit ==
  \/ NavigationEdit
  \/ \E d \in Difficulties : SetDifficulty(d)
  \/ updates < MaxUpdates /\ handleSave(TRUE)
  \/ \E r \in BagToSet(saveReqs) : StoreFollows(r) /\ SaveOk_Modal(r)
  \/ \E r \in BagToSet(saveReqs) : StoreFollows(r) /\ SaveOk_Inline(r)
  \/ \E r \in BagToSet(saveReqs) : StoreFollows(r) /\ SaveOk_Page(r)
  \/ Answers

SpecEdit == Init /\ [][NextEdit]_vars

(***************************************************************************)
(* The question list: search, filter, pagination and deletion.             *)
(***************************************************************************)
\* The values the search box and the difficulty filter are given.
Searches == {"", "u"}
DifficultyOptions == {"all", "easy"}

\* The timer of the effect: setTimeout(..., 500).  The clock of the model
\* advances by TickMs.
DEBOUNCE_MS == 500
TickMs == 250

\* A timer that is always due.
TimerDue_Always == TRUE

TimerDue == elapsed >= DEBOUNCE_MS

Tick ==
  /\ debounce
  /\ elapsed < DEBOUNCE_MS
  /\ elapsed' = elapsed + TickMs
  /\ lastOp' = Op("Tick")
  /\ UNCHANGED <<formSide, feedbackVars, sessionVars, page, search,
                 difficultyFilter, totalPages, deleteReqs, stored>>

\* The effect with [page, search, difficultyFilter] runs again: the timer
\* of the previous run is cleared and a new one is set.
Rearm ==
  /\ debounce' = TRUE
  /\ elapsed' = 0
  /\ UNCHANGED <<variant, serverVars, view, editingId, formVars, reqVars,
                 questions, listLoading, listReqs, histVars, optionVars,
                 probeVars, usersVars, feedbackVars, sessionVars, totalPages, deleteReqs,
                 stored>>

\* onChange of the search box
setSearch(v) ==
  /\ view = "list"
  /\ v # search
  /\ search' = v
  /\ Rearm
  /\ lastOp' = Op("setSearch")
  /\ UNCHANGED <<page, difficultyFilter>>

\* onChange of the difficulty select
setDifficultyFilter(d) ==
  /\ view = "list"
  /\ d # difficultyFilter
  /\ difficultyFilter' = d
  /\ Rearm
  /\ lastOp' = Op("setDifficultyFilter")
  /\ UNCHANGED <<page, search>>

\* The Prev and Next buttons, rendered below a list that is not empty.
PrevPage ==
  /\ RowsShown /\ view = "list" /\ questions # << >>
  /\ page # 1
  /\ page' = IF page - 1 > 1 THEN page - 1 ELSE 1
  /\ Rearm
  /\ lastOp' = Op("setPage")
  /\ UNCHANGED <<search, difficultyFilter>>

NextPage ==
  /\ RowsShown /\ view = "list" /\ questions # << >>
  /\ page < totalPages
  /\ page' = page + 1
  /\ Rearm
  /\ lastOp' = Op("setPage")
  /\ UNCHANGED <<search, difficultyFilter>>

MaxDeleteReqs == 2
MaxListOverlap == 2

\* A handleDelete that does not ask.
handleDelete_NoConfirm(q, ok) ==
  /\ RowsShown /\ view = "list"
  /\ q \in Rows
  /\ BagCardinality(deleteReqs) < MaxDeleteReqs
  /\ deleteReqs' = deleteReqs (+)
        One([id |-> q.id, params |-> ListParams(page, search, difficultyFilter)])
  /\ lastOp' = [Op("handleDelete") EXCEPT !.req.id = q.id, !.called = ok]
  /\ UNCHANGED <<formSide, feedbackVars, sessionVars, page, search,
                 difficultyFilter, totalPages, elapsed, stored>>

\* handleDelete up to its await; ok is the answer to window.confirm.  The
\* fetchQuestions it will call is the one of the render of the click.
handleDelete(q, ok) ==
  /\ RowsShown /\ view = "list"
  /\ q \in Rows
  /\ ok => BagCardinality(deleteReqs) < MaxDeleteReqs
  /\ deleteReqs' =
       IF ok
       THEN deleteReqs (+)
              One([id |-> q.id, params |-> ListParams(page, search, difficultyFilter)])
       ELSE deleteReqs
  /\ lastOp' = [Op("handleDelete") EXCEPT !.req.id = q.id, !.called = ok]
  /\ UNCHANGED <<formSide, feedbackVars, sessionVars, page, search,
                 difficultyFilter, totalPages, elapsed, stored>>

\* The remote API deletes the question and answers; handleDelete after its
\* await: fetchQuestions().
DeleteOk(r) ==
  /\ r \in BagToSet(deleteReqs)
  /\ r.id \in stored
  /\ BagCardinality(listReqs) < MaxListOverlap
  /\ deleteReqs' = deleteReqs (-) One(r)
  /\ stored' = stored \ {r.id}
  /\ fetchQuestionsOf(r.params, lastOk, updates)
  /\ lastOp' = [Op("DeleteOk") EXCEPT !.req.id = r.id]
  /\ UNCHANGED <<variant, serverVars, view, editingId, formVars, reqVars,
                 questions, debounce, histVars, optionVars, probeVars, usersVars,
                 feedbackVars,
                 sessionVars,
                 page, search, difficultyFilter, totalPages, elapsed>>

\* catch: toast.error
DeleteFail(r) ==
  /\ r \in BagToSet(deleteReqs)
  /\ deleteReqs' = deleteReqs (-) One(r)
  /\ lastOp' = [Op("DeleteFail") EXCEPT !.req.id = r.id, !.toast = "error"]
  /\ UNCHANGED <<formSide, feedbackVars, sessionVars, page, search,
                 difficultyFilter, totalPages, elapsed, stored>>

\* The Questions page with its list, the store holding three questions.
InitList ==
  /\ FormInit
  /\ variant = "Questions"
  /\ FeedbackInit
  /\ SessionInit("t1", "/questions")
  /\ PagingInit(ListIds)
  /\ UsersInit

\* Search, filter and pagination: the timer and the requests it sends.
NextList ==
  \/ \E v \in Searches : setSearch(v)
  \/ \E d \in DifficultyOptions : setDifficultyFilter(d)
  \/ PrevPage
  \/ NextPage
  \/ Tick
  \/ TimerDue /\ DebounceFire
  \/ \E r \in BagToSet(listReqs) : ServerList(r)
  \/ \E r \in BagToSet(listReqs) : ListOk(r)

SpecList == InitList /\ [][NextList]_vars

\* Deletions from the list, with the pagination buttons.
NextDelete ==
  \/ PrevPage
  \/ NextPage
  \/ Tick
  \/ TimerDue /\ DebounceFire
  \/ \E r \in BagToSet(listReqs) : ServerList(r)
  \/ \E r \in BagToSet(listReqs) : ListOk(r)
  \/ \E q \in Rows, ok \in BOOLEAN : handleDelete(q, ok)
  \/ \E r \in BagToSet(deleteReqs) : DeleteOk(r)
  \/ \E r \in BagToSet(deleteReqs) : DeleteFail(r)

SpecDelete == InitList /\ [][NextDelete]_vars

\* Search, filter and pagination with list requests that overlap.
NextOverlap ==
  \/ \E v \in Searches : setSearch(v)
  \/ \E d \in DifficultyOptions : setDifficultyFilter(d)
  \/ PrevPage
  \/ NextPage
  \/ Tick
  \/ TimerDue /\ DebounceFireUpTo(MaxListOverlap)
  \/ \E r \in BagToSet(listReqs) : ServerList(r)
  \/ \E r \in BagToSet(listReqs) : ListOk(r)

SpecOverlap == InitList /\ [][NextOverlap]_vars

(***************************************************************************)
(* Specification of the feedback view.                                     *)
(***************************************************************************)
\* An administrator who is logged in, at the feedback view.
InitFeedback ==
  /\ FormInit
  /\ variant = "QuestionForm"
  /\ FeedbackMounted
  /\ SessionInit("t1", "/feedback")
  /\ PagingInit({"Q1", "Q2"})
  /\ UsersInit

NextFeedback ==
  \/ \E r \in BagToSet(fbReqs), o \in Orders : ServerFeedback(r, o)
  \/ \E r \in BagToSet(fbReqs) : FeedbackOk(r)
  \/ \E r \in BagToSet(fbReqs) : FeedbackFail(r)
  \/ \E field \in DOMAIN FilterTexts :
       \E v \in FilterTexts[field] : setFilters(field, v)
  \/ \E v \in StatusOptions : setFilters("status", v)
  \/ \E fb \in ActionRows, st \in {"resolved", "ignored"} :
       statusReqs = EmptyBag /\ updateStatus(fb, st)
  \/ \E r \in BagToSet(statusReqs) : StatusOk(r)
  \/ \E r \in BagToSet(statusReqs) : StatusFail(r)

\* Filtering the fetched items, with one status change at a time.
SpecFeedback == InitFeedback /\ [][NextFeedback]_vars

NextStatus ==
  \/ fetchFeedback
  \/ \E r \in BagToSet(fbReqs), o \in Orders : ServerFeedback(r, o)
  \/ \E r \in BagToSet(fbReqs) : FeedbackOk(r)
  \/ \E r \in BagToSet(fbReqs) : FeedbackFail(r)
  \/ \E fb \in ActionRows, st \in {"resolved", "ignored"} : updateStatus(fb, st)
  \/ \E r \in BagToSet(statusReqs) : StatusOk(r)
  \/ \E r \in BagToSet(statusReqs) : StatusFail(r)

\* Status changes, one click after the other, with the filters as they are
\* when the view opens.
SpecStatus == InitFeedback /\ [][NextStatus]_vars

(***************************************************************************)
(* Specification of the session.                                           *)
(***************************************************************************)
\* The application is opened at a route, with or without a stored session.
InitSession ==
  /\ FormInit
  /\ variant = "QuestionForm"
  /\ FeedbackInit
  /\ \E tok \in {"", "t1"}, path \in Routes : SessionInit(tok, path)
  /\ PagingInit({"Q1", "Q2"})
  /\ UsersInit

NextSession ==
  \/ \E path \in Routes : navigate(path)
  \/ \E url \in {"/help"} \cup ProtectedRoutes : apiCall(url)
  \/ handleLogin
  \/ \E r \in BagToSet(loginReqs), t \in Tokens : LoginOk(r, t)
  \/ \E r \in BagToSet(loginReqs) : LoginFail(r)
  \/ handleLogout

SpecSession == InitSession /\ [][NextSession]_vars

(***************************************************************************)
(* Properties.                                                             *)
(***************************************************************************)
IdFields == {"unitId", "chapterId"}

\* The save handler has just run and sent a request.
SaveSent == lastOp.op = "handleSave" /\ lastOp.req.kind # "none"

\* C1: in each of the three forms, right after a value was chosen in the
\* subject selector, the unit id and the chapter id of the form are empty.
C1_SubjectResetsUnitAndChapter ==
  lastOp.op = "SelectSubject" => formData.unitId = "" /\ formData.chapterId = ""

\* A subject was chosen in a form populated from a question that carries a
\* chapter.
C1_Witness ==
  /\ lastOp.op = "SelectSubject"
  /\ loaded.set /\ loaded.unitId # "" /\ loaded.chapterId # ""
  /\ formData.subjectId # ""
  /\ formData.unitId = "" /\ formData.chapterId = ""

\* C2: the payload of a save request has no unitId and no chapterId that is
\* the empty string: an empty id of the form is absent from the payload, a
\* non-empty one is in it with the value of the form.
C2_PayloadStripsEmptyIds ==
  SaveSent =>
    \A g \in IdFields :
      IF formData[g] = ""
      THEN g \notin DOMAIN lastOp.req.payload
      ELSE g \in DOMAIN lastOp.req.payload /\ lastOp.req.payload[g] = formData[g]

\* A save of a form with a unit and without a chapter.
C2_Witness ==
  /\ SaveSent
  /\ formData.unitId # "" /\ formData.chapterId = ""
  /\ "unitId" \in DOMAIN lastOp.req.payload
  /\ "chapterId" \notin DOMAIN lastOp.req.payload

\* C3: a save of a form whose two texts are empty, or whose subject is
\* empty, sends no request, does nothing of what the completion callback
\* does (the form stays open on the same question, no list fetch), leaves
\* the form data as they are, and the saving flag is false afterwards.
C3_RejectedSaveDoesNothing ==
  [][(lastOp'.op = "handleSave"
      /\ ((formData.questionText.en = "" /\ formData.questionText.hi = "")
          \/ formData.subjectId = ""))
     => /\ saveReqs' = saveReqs
        /\ lastOp'.req.kind = "none" /\ ~lastOp'.called
        /\ view' = view /\ editingId' = editingId /\ listReqs' = listReqs
        /\ formData' = formData
        /\ formLoading' = FALSE]_vars

\* A save of a form with a text and without a subject was rejected.
C3_Witness ==
  /\ lastOp.op = "handleSave" /\ lastOp.req.kind = "none"
  /\ formData.questionText.hi # "" /\ formData.subjectId = ""
  /\ saveReqs = EmptyBag /\ ~formLoading /\ Open

\* C4: a save of a form with a text in one language at least and with a
\* subject sends exactly one request: a create when the form is bound to no
\* question id, an update of the bound id otherwise.
C4_ValidSaveSendsOneRequest ==
  [][(lastOp'.op = "handleSave"
      /\ ~(formData.questionText.en = "" /\ formData.questionText.hi = "")
      /\ formData.subjectId # "")
     => /\ BagCardinality(saveReqs') = BagCardinality(saveReqs) + 1
        /\ \E r \in BagToSet(saveReqs') :
             /\ saveReqs' = saveReqs (+) One(r)
             /\ r.kind = IF editingId = "" THEN "create" ELSE "update"
             /\ r.id = editingId
             /\ lastOp'.req.kind = r.kind /\ lastOp'.req.id = r.id]_vars

\* A question with a Hindi text only was saved as an update of its id.
C4_Witness ==
  /\ SaveSent
  /\ formData.questionText.en = "" /\ formData.questionText.hi # ""
  /\ editingId # ""
  /\ lastOp.req.kind = "update" /\ lastOp.req.id = editingId
  /\ BagCardinality(saveReqs) = 1

\* The row the list displays for a question id.
Displayed(qid) == {questions[i] : i \in {j \in 1..Len(questions) : questions[j].id = qid}}

\* C5: an update carries the current value of every field of the form (the
\* two ids when not empty), so the difficulty the user chose; a successful
\* save that returns to the list has a fetch of the list on its way; and
\* when a list fetched after the update the store applied last arrives (no
\* update was applied since it was sent), the row of the question shows
\* what the update carried.
C5_EditIsSavedAndShown ==
  /\ (lastOp.op = "handleSave" /\ lastOp.req.kind = "update") =>
       \A f \in DOMAIN formData :
         (f \in IdFields /\ formData[f] = "")
         \/ (f \in DOMAIN lastOp.req.payload /\ lastOp.req.payload[f] = formData[f])
  /\ (lastOp.op = "SaveOk" /\ view = "list") =>
       \/ debounce
       \/ \E r \in BagToSet(listReqs) :
            ~r.done /\ r.expect = lastOk /\ r.after = updates
  /\ (lastOp.op = "ListOk" /\ lastOp.req.kind = "update"
      /\ lastOp.req = lastOk /\ lastOp.after = updates) =>
       /\ Displayed(lastOp.req.id) # {}
       /\ \A row \in Displayed(lastOp.req.id) :
            \A f \in DOMAIN lastOp.req.payload : row[f] = lastOp.req.payload[f]

\* Q1, stored as easy, was saved as hard, and the list fetched after the
\* save shows it as hard.
C5_Witness ==
  /\ lastOp.op = "ListOk"
  /\ lastOp.req = lastOk /\ lastOp.after = updates
  /\ lastOp.req.kind = "update" /\ lastOp.req.id = "Q1"
  /\ InitialDb["Q1"].difficulty = "easy"
  /\ lastOp.req.payload.difficulty = "hard"
  /\ \E row \in Displayed("Q1") : row.difficulty = "hard"

\* C6: in every form, once units are loaded, a chapter id of the form that
\* is not empty and not among the chapters of the selected unit is an option
\* of the chapter selector.
C6_ChapterPreservedEverywhere ==
  (FormRendered /\ units # << >> /\ formData.chapterId # ""
   /\ formData.chapterId \notin AvailableChapterIds)
  => formData.chapterId \in ChapterOptions

\* C7: when a question was loaded into the form and no classification
\* selector was used since, the update of that question carries the unit id
\* and the chapter id the store held, whatever the units requests do.
C7_LoadSaveRoundTrip ==
  (SaveSent /\ lastOp.req.kind = "update" /\ loaded.set
   /\ loaded.id = lastOp.req.id /\ ~touched)
  => \A g \in IdFields :
       IF loaded[g] = ""
       THEN g \notin DOMAIN lastOp.req.payload
       ELSE g \in DOMAIN lastOp.req.payload /\ lastOp.req.payload[g] = loaded[g]

\* Q2, whose unit is unknown to its subject, was saved untouched while the
\* units of its subject were still requested.
C7_Witness ==
  /\ SaveSent /\ lastOp.req.kind = "update" /\ lastOp.req.id = "Q2"
  /\ loaded.set /\ loaded.id = "Q2" /\ ~touched
  /\ unitReqs # EmptyBag
  /\ lastOp.req.payload.unitId = InitialDb["Q2"].unitId
  /\ "chapterId" \notin DOMAIN lastOp.req.payload

\* C8: once units are loaded, a unit id of the form that is not empty and
\* not in the loaded unit list is an option of the unit selector.
C8_UnitPreserved ==
  (FormRendered /\ units # << >> /\ formData.unitId # ""
   /\ formData.unitId \notin SeqIds(units, "unitId"))
  => formData.unitId \in UnitOptions

\* C9: choosing a unit empties the chapter id and changes nothing else of
\* the form but the unit id; a unit is chosen only while the subject id is
\* not empty, a chapter only while the unit id is not empty.
C9_UnitResetsChapterOnly ==
  [][/\ lastOp'.op = "SelectUnit" =>
          /\ formData.subjectId # ""
          /\ formData'.chapterId = ""
          /\ formData' = [formData EXCEPT !.unitId = formData'.unitId,
                                          !.chapterId = ""]
     /\ lastOp'.op = "SelectChapter" => formData.unitId # ""]_vars

\* A unit was chosen in a form populated from a question that carries a
\* chapter.
C9_Witness ==
  /\ lastOp.op = "SelectUnit"
  /\ loaded.set /\ loaded.chapterId # "" /\ ~(loaded.unitId = formData.unitId)
  /\ formData.subjectId # "" /\ formData.chapterId = ""

\* C10: after the failure of the units request for the subject the form has
\* selected, the unit list is empty.
C10_UnitsEmptyAfterFailure ==
  (lastOp.op = "UnitsFail" /\ lastOp.req.id = formData.subjectId)
  => units = << >>

(***************************************************************************)
(* Properties of the feedback view.                                        *)
(***************************************************************************)
\* What the filter state asks of an item, filter by filter.
StatusAccepts(fb) == filters.status = "all" \/ fb.status = filters.status
UserAccepts(fb) ==
  \/ filters.userName = << >>
  \/ includes(toLowerCase(userNameOf(fb)), toLowerCase(filters.userName))
QuestionAccepts(fb) ==
  \/ filters.questionText = << >>
  \/ includes(toLowerCase(fb.qEn), toLowerCase(filters.questionText))
  \/ includes(toLowerCase(fb.qHi), toLowerCase(filters.questionText))
TextAccepts(fb) ==
  \/ filters.feedbackText = << >>
  \/ includes(toLowerCase(fb.feedback), toLowerCase(filters.feedbackText))

Fetched == {feedbacks[i] : i \in 1..Len(feedbacks)}
DisplayedFeedback == {filteredFeedbacks[i] : i \in 1..Len(filteredFeedbacks)}

\* C11: in the feedback view with filters, the displayed items are exactly
\* the fetched items that satisfy every active filter: the status filter
\* excludes every item of another status and 'all' excludes none, the user
\* name filter is a case-insensitive substring match, the question text
\* filter accepts a match in the English or in the Hindi text, and each
\* item is displayed once.
C11_FiltersAreConjoined ==
  fbVariant = "App" =>
    /\ DisplayedFeedback =
         {fb \in Fetched : /\ StatusAccepts(fb) /\ UserAccepts(fb)
                           /\ QuestionAccepts(fb) /\ TextAccepts(fb)}
    /\ Len(filteredFeedbacks) = Cardinality(DisplayedFeedback)

\* Fetched items, status filter 'pending' and a user name filter: an item
\* passes both, a pending item fails the user name filter, and an item of the
\* user fails the status filter.
C11_Witness ==
  /\ fbVariant = "App"
  /\ ~fbLoading
  /\ filters.status = "pending"
  /\ filters.userName # << >>
  /\ DisplayedFeedback # {}
  /\ \E fb \in Fetched : StatusAccepts(fb) /\ ~UserAccepts(fb)
  /\ \E fb \in Fetched : ~StatusAccepts(fb) /\ UserAccepts(fb)

\* C12: the displayed feedback items are ordered by creation time, latest
\* first, whatever the order of the response, the filters and the local
\* status updates.
C12_LatestFirst ==
  \A i, j \in 1..Len(filteredFeedbacks) :
    i < j => filteredFeedbacks[i].createdAt >= filteredFeedbacks[j].createdAt

\* C13: an item whose status is not pending never changes status again, and
\* a status-change request is sent only for an item the view holds as
\* pending, with target resolved or ignored.
C13_NonPendingIsFinal ==
  [][/\ \A id \in FeedbackIds :
          fbStore[id] # "pending" => fbStore'[id] = fbStore[id]
     /\ \A r \in BagToSet(statusReqs') :
          r.status \in {"resolved", "ignored"}]_vars

(***************************************************************************)
(* Properties of the session.                                              *)
(***************************************************************************)
\* C14: logout removes the token and the user record and ends at the login
\* route; while no token is stored, no step brings a protected view to the
\* screen, and a navigation to a protected route ends at the login route.
C14_LogoutEndsTheSession ==
  [][/\ lastOp'.op = "handleLogout" =>
          /\ token' = "" /\ adminUser' = ""
          /\ location' = "/login" /\ shown' = "/login"
     /\ token' = "" => shown' \notin ProtectedRoutes
     /\ (token = "" /\ lastOp'.op = "navigate"
           /\ lastOp'.req.id \in ProtectedRoutes) => location' = "/login"]_vars

\* The administrator has just logged out.
C14_Witness ==
  /\ lastOp.op = "handleLogout"
  /\ token = "" /\ adminUser = ""
  /\ shown = "/login"

\* C15: a protected route is rendered only if a token is stored when the
\* guard looks; without a token the guard answers with the login route;
\* the login and register routes are rendered with or without a token.
C15_GuardNeedsToken ==
  /\ shown \in ProtectedRoutes => token # ""
  /\ lastOp.op = "navigate" =>
       IF lastOp.req.id \in PublicRoutes
       THEN shown = lastOp.req.id /\ location = lastOp.req.id
       ELSE IF token = "" THEN shown = "/login" /\ location = "/login"
       ELSE shown = lastOp.req.id

\* Without a token the administrator asked for the settings and got the
\* login page.
C15_Witness ==
  /\ token = ""
  /\ lastOp.op = "navigate"
  /\ lastOp.req.id = "/settings"
  /\ shown = "/login"

\* C16: the token appears only with a successful login response, which
\* stores token and user record and navigates to the dashboard; it
\* disappears only with logout; a failed login stores nothing, navigates
\* nowhere and sets the error message of the login page that sent it.
C16_SessionStateMachine ==
  [][/\ (token = "" /\ token' # "") => lastOp'.op = "LoginOk"
     /\ (token # "" /\ token' = "") => lastOp'.op = "handleLogout"
     /\ lastOp'.op = "LoginOk" =>
          /\ token' \in Tokens /\ adminUser' # ""
          /\ location' = "/" /\ shown' = "/"
     /\ lastOp'.op = "LoginFail" =>
          /\ UNCHANGED <<token, adminUser, location, shown>>
          /\ lastOp'.called => loginError' # ""]_vars

\* A login has just failed for a visitor without a session.
C16_Witness ==
  /\ lastOp.op = "LoginFail"
  /\ lastOp.called
  /\ loginError # ""
  /\ token = ""
  /\ shown = "/login"

\* C17: every request leaves with Authorization: Bearer <t>, t being the
\* token localStorage holds when the request is sent, and without an
\* Authorization header when it holds none.
C17_BearerFromStorage ==
  [][lastOp'.op \in {"apiCall", "handleLogin", "handleLogout"} =>
       IF token' # ""
       THEN /\ DOMAIN outbox'.headers = {"Authorization"}
            /\ outbox'.headers["Authorization"] = <<"Bearer", token'>>
       ELSE DOMAIN outbox'.headers = {}]_vars

\* A view calls the API with the token of the second login.
C17_Witness ==
  /\ lastOp.op = "apiCall"
  /\ token = "t2"
  /\ outbox.url = "/settings"
  /\ outbox.headers["Authorization"] = <<"Bearer", "t2">>

(***************************************************************************)
(* Properties of the question list.                                        *)
(***************************************************************************)
\* The list requests a step has added.
SentNow ==
  {r \in BagToSet(listReqs') :
     ~r.done /\ CopiesIn(r, listReqs') > CopiesIn(r, listReqs)}

C19_DeleteNeedsConfirmation ==
  [][/\ deleteReqs' (-) deleteReqs # EmptyBag =>
          lastOp'.op = "handleDelete" /\ lastOp'.called
     /\ (lastOp'.op = "handleDelete" /\ ~lastOp'.called) =>
          UNCHANGED <<deleteReqs, listReqs, questions, listLoading, page,
                      totalPages, search, difficultyFilter, stored>>
     /\ lastOp'.op = "DeleteFail" =>
          UNCHANGED <<listReqs, questions, listLoading, page, totalPages,
                      search, difficultyFilter, stored>>]_vars

\* The administrator has just declined the confirmation for a displayed
\* question.
C19_Witness ==
  /\ lastOp.op = "handleDelete"
  /\ ~lastOp.called
  /\ \E i \in 1..Len(questions) : questions[i].id = lastOp.req.id
  /\ deleteReqs = EmptyBag
  /\ listReqs = EmptyBag

\* C20: once no delete request, no list request and no timer is pending,
\* the displayed list shows no question that has been deleted.
C20_DeletedIsNotShown ==
  (deleteReqs = EmptyBag /\ listReqs = EmptyBag /\ ~debounce /\ ~listLoading)
    => \A i \in 1..Len(questions) : questions[i].id \in stored

\* The keep-alive probe while the administrator logs out and in again and
\* closes and opens the page.
NextProbe ==
  \/ ProbeTick
  \/ keepAlive
  \/ ProbeOk
  \/ ProbeFail
  \/ AppUnmount
  \/ AppMount
  \/ mounted /\ handleLogout
  \/ mounted /\ handleLogin
  \/ \E r \in BagToSet(loginReqs), t \in Tokens : LoginOk(r, t)
  \/ \E r \in BagToSet(loginReqs) : LoginFail(r)

SpecProbe == InitSession /\ [][NextProbe]_vars

(***************************************************************************)
(* Specifications of the Users page.                                       *)
(***************************************************************************)
\* The detail view, opened for one user after the other, no user twice
\* while the request of that user is on its way, with a server that answers
\* every request successfully.
NextView ==
  \/ UsersDebounceFire
  \/ UsersAnswer(TRUE)
  \/ \E u \in UserIds \ BagToSet(viewReqs) : handleViewUser(u)
  \/ \E u \in BagToSet(viewReqs) : ViewOk(u)
  \/ closeView
  \/ \E u \in UserIds \cup {""} : handleOpenModal(u)
  \/ closeUserForm

SpecView == Init /\ [][NextView]_vars

\* The user form and the detail view.
NextUsers ==
  \/ UsersDebounceFire
  \/ \E ok \in BOOLEAN : UsersAnswer(ok)
  \/ \E u \in UserIds : handleViewUser(u)
  \/ \E u \in BagToSet(viewReqs) : ViewOk(u)
  \/ \E u \in BagToSet(viewReqs) : ViewFail(u)
  \/ closeView
  \/ \E u \in UserIds \cup {""} : handleOpenModal(u)
  \/ closeUserForm
  \/ \E v \in Names : setUserField("name", v)
  \/ \E v \in Passwords : setUserField("password", v)
  \/ handleSubmit
  \/ \E r \in BagToSet(submitReqs) : SubmitOk(r)
  \/ \E r \in BagToSet(submitReqs) : SubmitFail(r)

SpecUsers == Init /\ [][NextUsers]_vars

(***************************************************************************)
(* The subject selector of a new question, with a server that answers     *)
(* every request successfully.                                             *)
(***************************************************************************)
NextUnits ==
  \/ handleAddNew_Modal
  \/ handleAddNew_Inline
  \/ handleAddNew_Form
  \/ SubjectsOk
  \/ \E s \in SubjectOptions : SelectSubject(s)
  \/ \E u \in UnitOptions : SelectUnit(u)
  \/ \E c \in ChapterOptions : SelectChapter(c)
  \/ \E s \in BagToSet(unitReqs) : UnitsOk(s)

SpecUnits == Init /\ [][NextUnits]_vars

(***************************************************************************)
(* Opening the forms again and again, with the option texts typed.         *)
(***************************************************************************)
NextBlank ==
  \/ \E q \in Rows : handleEdit_Modal(q)
  \/ handleAddNew_Modal
  \/ closeModal_Modal
  \/ \E q \in Rows : handleEdit_Inline(q)
  \/ handleAddNew_Inline
  \/ closeModal_Inline
  \/ \E q \in Rows : handleEdit_Form(q)
  \/ handleAddNew_Form
  \/ closeModal_Form
  \/ handleCancel_Page
  \/ \E lang \in {"en", "hi"}, v \in TextValues : SetQuestionText(lang, v)
  \/ \E v \in OptionTexts : SetOptionText(v)
  \/ SubjectsOk
  \/ \E r \in BagToSet(loadReqs) : ServerLoad(r)
  \/ \E r \in BagToSet(loadReqs), rep \in RepChoices : LoadOk(r, rep)
  \/ \E s \in BagToSet(unitReqs) : UnitsOk(s)
  \/ DebounceFire
  \/ \E r \in BagToSet(listReqs) : ServerList(r)
  \/ \E r \in BagToSet(listReqs) : ListOk(r)

SpecBlank == Init /\ [][NextBlank]_vars

(***************************************************************************)
(* Saving, with the forms opened and left while requests are on their way. *)
(***************************************************************************)
MaxSaveOverlap == 2

NextSave ==
  \/ Navigation
  \/ \E lang \in {"en", "hi"}, v \in TextValues : SetQuestionText(lang, v)
  \/ \E s \in SubjectOptions : SelectSubject(s)
  \/ handleSaveUpTo(FALSE, MaxSaveOverlap)
  \/ \E r \in BagToSet(saveReqs) : StoreFixed /\ SaveOk_Modal(r)
  \/ \E r \in BagToSet(saveReqs) : StoreFixed /\ SaveOk_Inline(r)
  \/ \E r \in BagToSet(saveReqs) : StoreFixed /\ SaveOk_Page(r)
  \/ \E r \in BagToSet(saveReqs) : StoreFixed /\ SaveOk_Create(r)
  \/ \E r \in BagToSet(saveReqs) : SaveFail(r)
  \/ SubjectsOk
  \/ \E s \in BagToSet(unitReqs) : UnitsOk(s)
  \/ \E r \in BagToSet(loadReqs) : ServerLoad(r)
  \/ \E r \in BagToSet(loadReqs), rep \in RepChoices : LoadOk(r, rep)
  \/ DebounceFire
  \/ \E r \in BagToSet(listReqs) : ServerList(r)
  \/ \E r \in BagToSet(listReqs) : ListOk(r)

SpecSave == Init /\ [][NextSave]_vars

(***************************************************************************)
(* Properties of the forms under concurrency.                              *)
(***************************************************************************)
\* C26: in QuestionEditModal an update request addressed to a question is
\* never sent from a form whose content was populated from another question.
C26_UpdateCarriesOwnContent ==
  [][(/\ variant = "QuestionEditModal"
      /\ lastOp'.op = "handleSave"
      /\ lastOp'.req.kind = "update")
       => ~(loaded.set /\ loaded.id # lastOp'.req.id)]_vars

\* C27: once every units request has been answered successfully, the unit
\* list of the form is the one of the selected subject, and empty when no
\* subject is selected.
C27_UnitsOfSelectedSubject ==
  (Open /\ unitReqs = EmptyBag)
  => units = IF formData.subjectId = "" THEN << >>
             ELSE ServerUnits(formData.subjectId)

(***************************************************************************)
(* Properties of the failure handling.                                     *)
(***************************************************************************)
\* The steps that handle the failure of a request.
FailureOps ==
  {"SaveFail", "LoadFail", "UnitsFail", "FeedbackFail", "StatusFail",
   "DeleteFail"}

\* C21: the failure of a request raises an error notification and leaves
\* the loading flag of the request false.
C21_FailuresAreNotified ==
  /\ lastOp.op \in FailureOps => lastOp.toast = "error"
  /\ lastOp.op = "FeedbackFail" => ~fbLoading
  /\ lastOp.op = "LoadFail" => ~loading

(***************************************************************************)
(* Properties of the paginated lists.                                      *)
(***************************************************************************)
\* C28: the page number is at least 1, and once the response to the latest
\* list request is applied it is at most max(1, totalPages).
C28_PageWithinRange ==
  /\ 1 <= page
  /\ (listReqs = EmptyBag /\ ~debounce /\ ~listLoading)
       => page <= (IF totalPages > 1 THEN totalPages ELSE 1)

\* The response to a list request for the parameters now selected.
CurrentResponse == ListResponse(db, stored, ListParams(page, search, difficultyFilter))

\* C25: list requests are neither cancelled nor sequenced: a request leaves
\* only when its response arrives, and the list and the page count shown
\* are then those of that response, whatever parameters it was sent for.
C25_LastResponseWins ==
  [][IF lastOp'.op = "ListOk"
     THEN \E r \in BagToSet(listReqs) :
            /\ r.done
            /\ listReqs' = listReqs (-) One(r)
            /\ questions' = r.rows
            /\ totalPages' = r.totalPages
     ELSE /\ BagCardinality(listReqs') >= BagCardinality(listReqs)
          /\ UNCHANGED <<questions, totalPages>>]_vars

\* Every request is answered, the one for the older parameters last: the
\* list shown is not the one for the parameters selected.
C25_Witness ==
  /\ listReqs = EmptyBag /\ ~debounce
  /\ lastOp.op = "ListOk"
  /\ questions # CurrentResponse.questions
  /\ totalPages # CurrentResponse.totalPages

(***************************************************************************)
(* Properties of saving.                                                   *)
(***************************************************************************)
\* The save requests on their way that the form now mounted has sent.
LiveSaves ==
  LET S == {r \in BagToSet(saveReqs) : r.live}
  IN BagCardinality([r \in S |-> saveReqs[r]])

C23_NewFormStartsBlank ==
  [][(view = "list" /\ view' = "modal" /\ editingId' = "")
       => (formData' = initialFormState /\ options' = "")]_vars

(***************************************************************************)
(* Properties of the keep-alive probe.                                     *)
(***************************************************************************)
\* The steps at which App mounts.
MountOps == {"AppMount", "handleLogout"}

\* C24: one probe is sent when App mounts and one each time 15 minutes have
\* passed since, with or without a token; a probe that fails changes
\* nothing, raises no notification and leaves the timer set; the timer is
\* set exactly while App is mounted.
C24_KeepAliveProbe ==
  [][/\ lastOp'.op \in MountOps
          => (probes' = 1 /\ probeReqs' = 1 /\ sinceProbe' = 0)
     /\ lastOp'.op = "keepAlive"
          => /\ sinceProbe = KEEPALIVE_MIN /\ sinceProbe' = 0
             /\ probeReqs' = probeReqs + 1
             /\ outbox'.url = "/help"
     /\ probes' # probes => lastOp'.op \in MountOps \cup {"keepAlive"}
     /\ sinceProbe' <= KEEPALIVE_MIN
     /\ lastOp'.op = "ProbeFail"
          => /\ lastOp'.toast = "none"
             /\ UNCHANGED <<formOnly, feedbackVars, sessionVars, pagingVars,
                            mounted, interval, sinceProbe, probes>>
     /\ interval' <=> mounted']_vars

\* A probe sent by the timer without a token has failed; the timer is set.
C24_Witness ==
  /\ lastOp.op = "ProbeFail"
  /\ token = ""
  /\ probes >= 2
  /\ interval

(***************************************************************************)
(* Properties of the Users page.                                           *)
(***************************************************************************)
\* C22: the detail view shows the loading state while the request of the
\* user opened last is on its way, and once every request is answered it
\* shows the record and the statistics of the user opened last.
C22_ViewShowsLastOpened ==
  isViewModalOpen =>
    /\ opened \in BagToSet(viewReqs) => loadingStats
    /\ viewReqs = EmptyBag
         => (viewUser = DetailUser(opened) /\ viewUserStats = DetailStats(opened))

\* C29: the request of the user form carries the password that was typed,
\* and carries no password member when the password input is blank.
C29_PasswordIsSent ==
  [][lastOp'.op = "handleSubmit"
       => submitted'.body = finalPayload(userForm)]_vars

====
